---- MODULE Spec2Model ----
(***************************************************************************)
(* A model of DiSPA, a compiler from a timeline-description language to    *)
(* timer-gated scoreboard commands.                                        *)
(*                                                                         *)
(* Text is modelled character by character: a string is a sequence of      *)
(* one-character strings, so that trimming, splitting, prefix tests and    *)
(* number parsing are computed the way the Rust code computes them.        *)
(*                                                                         *)
(* The module holds several state machines over one set of variables:      *)
(*   SpecLex      successive calls of get_buffer_string on a character     *)
(*                stream (statements.rs)                                   *)
(*   SpecBlocks, SpecErrors, SpecNumbers                                   *)
(*                Program::parse_statements (statements.rs) on source      *)
(*                files of block markers, of well-formed and malformed     *)
(*                statements, and of number prefixes                       *)
(*   SpecMain     main's batch over the per-file results (main.rs)         *)
(*   SpecTick     the game engine running a generated function tick by     *)
(*                tick (compiled.rs)                                       *)
(*   SpecReader   parse_file, the reader main calls (file_reader.rs)       *)
(*   SpecCoordinates, SpecStream                                           *)
(*                Program::parse_statements on files of transform          *)
(*                statements and on files with blank pieces                *)
(*   SpecTokens   a Number token parsed, displayed and parsed again        *)
(*                (objects.rs)                                             *)
(***************************************************************************)
EXTENDS Integers, Sequences, FiniteSets, TLC

VARIABLES
    source,        \* the whole text of the source file (never changes)
    contents,      \* the unread rest of the character iterator
    raw_buffers,   \* untrimmed buffers returned by get_buffer_string so far
    block_queue,   \* parse_statements: the stack of NumberSets
    entity_map,    \* parse_statements: entity name -> Entity
    statements,    \* parse_statements: the statements pushed so far
    outcome,       \* parse_statements: "running", "ok", or the error returned
    results,       \* main: one Result per source file
    collected,     \* main: what collect_errors returned
    pending,       \* main: the compiled files the for loop has yet to take
    main_pc,       \* main: where main is
    tick_function, \* main: the lines of the tick function file
    outputs,       \* main: the output files written
    main_result,   \* main: what main returned
    program_statements, \* generator: the statements of the Program compiled
    function,      \* engine: the lines of the generated function
    timer,         \* engine: the timer score of the object-animation pair
    flags,         \* engine: the flags score of the object-animation pair
    timer_at_dispatch, \* engine: the timer score when the function was last invoked
    pc,            \* engine: 0 between ticks, else the next line to run
    overflow_checks, \* generator: whether the build checks integer overflow
    reader_pc,     \* parse_file: where parse_file is
    reader_raw,    \* parse_file: the statements split from the filtered code
    reader_named,  \* parse_file: what parse_names returned
    reader_flat,   \* parse_file: what collapse_blocks returned
    reader_result, \* parse_file: what parse_file returned
    number_token,  \* a word handed to Number::from_str
    number_parsed, \* what Number::from_str returned for the token
    number_shown,  \* the text Display writes for the Number
    number_reparsed, \* what Number::from_str returned for the text shown
    token_pc       \* where the parse and display of the token is

lexVars == <<source, contents, raw_buffers>>
parseVars == <<block_queue, entity_map, statements, outcome>>
mainVars == <<results, collected, pending, main_pc, tick_function, outputs, main_result>>
tickVars == <<program_statements, function, timer, flags, timer_at_dispatch, pc,
              overflow_checks>>
readerVars == <<reader_pc, reader_raw, reader_named, reader_flat, reader_result>>
tokenVars == <<number_token, number_parsed, number_shown, number_reparsed, token_pc>>
vars == <<source, contents, raw_buffers, block_queue, entity_map, statements,
          outcome, results, collected, pending, main_pc, tick_function, outputs,
          main_result,
          program_statements, function, timer, flags, timer_at_dispatch, pc,
          overflow_checks,
          reader_pc, reader_raw, reader_named, reader_flat, reader_result,
          number_token, number_parsed, number_shown, number_reparsed, token_pc>>

(***************************************************************************)
(* Bounds of the model.                                                    *)
(***************************************************************************)
MaxLexLen == 4
MaxBlockStatements == 5
MaxStatements == 3
MaxFiles == 3
MaxLines == 2
MaxTimer == 8
MaxReaderStatements == 3

(***************************************************************************)
(* String primitives of the Rust standard library, on character sequences. *)
(***************************************************************************)
\* char::is_whitespace, the Unicode property White_Space: U+0009 to U+000D, U+0020,
\* U+0085, U+00A0, U+1680, U+2000 to U+200A, U+2028, U+2029, U+202F, U+205F, U+3000.
\* A character above U+00FF, which no string of the model can hold, is written by
\* the name of its code point; U+000B, U+0085 and U+00A0 are written both ways.
Whitespace ==
    {"\t", "\n", "", "\f", "\r", " ", "", " ",
     "U+000B", "U+0085", "U+00A0", "U+1680",
     "U+2000", "U+2001", "U+2002", "U+2003", "U+2004", "U+2005", "U+2006", "U+2007",
     "U+2008", "U+2009", "U+200A", "U+2028", "U+2029", "U+202F", "U+205F", "U+3000"}

\* str::trim_start
RECURSIVE TrimStart(_)
TrimStart(s) ==
    IF s = <<>> THEN s
    ELSE IF Head(s) \in Whitespace THEN TrimStart(Tail(s)) ELSE s

\* str::trim_end
RECURSIVE TrimEnd(_)
TrimEnd(s) ==
    IF s = <<>> THEN s
    ELSE IF s[Len(s)] \in Whitespace THEN TrimEnd(SubSeq(s, 1, Len(s) - 1)) ELSE s

\* str::trim
Trim(s) == TrimEnd(TrimStart(s))

\* str::starts_with, str::ends_with, str::contains with a string pattern
StartsWith(s, p) == Len(s) >= Len(p) /\ SubSeq(s, 1, Len(p)) = p
EndsWith(s, p) == Len(s) >= Len(p) /\ SubSeq(s, Len(s) - Len(p) + 1, Len(s)) = p
Contains(s, p) == \E i \in 1..(Len(s) - Len(p) + 1) : SubSeq(s, i, i + Len(p) - 1) = p

\* str::split(c): every occurrence of c separates two (possibly empty) words
RECURSIVE SplitAcc(_, _, _)
SplitAcc(s, c, word) ==
    IF s = <<>> THEN <<word>>
    ELSE IF Head(s) = c THEN <<word>> \o SplitAcc(Tail(s), c, <<>>)
    ELSE SplitAcc(Tail(s), c, Append(word, Head(s)))

Split(s, c) == SplitAcc(s, c, <<>>)

\* str::split_once(c): None, or the text before and after the first c
SplitOnce(s, c) ==
    IF \E i \in 1..Len(s) : s[i] = c
    THEN LET i == CHOOSE k \in 1..Len(s) : s[k] = c /\ \A j \in 1..(k - 1) : s[j] # c
         IN [some |-> TRUE, before |-> SubSeq(s, 1, i - 1), after |-> SubSeq(s, i + 1, Len(s))]
    ELSE [some |-> FALSE, before |-> <<>>, after |-> <<>>]

RECURSIVE Concat(_)
Concat(ss) == IF ss = <<>> THEN <<>> ELSE Head(ss) \o Concat(Tail(ss))

\* the sequences over S of length at most n
SeqUpTo(S, n) == UNION {[1..k -> S] : k \in 0..n}

(***************************************************************************)
(* The buffer extractor (statements.rs).                                   *)
(***************************************************************************)
STATEMENT_END_CHAR == ";"
BLOCK_START_CHAR == "{"
BLOCK_END_CHAR == "}"
Separators == {STATEMENT_END_CHAR, BLOCK_START_CHAR, BLOCK_END_CHAR}

\* is_quoted that never opens a quoted span
is_quoted_never(c, escaped, quoted) == [escaped |-> FALSE, quoted |-> FALSE]

\* is_quoted with a quoted span that a line break closes as well
is_quoted_one_line(c, escaped, quoted) ==
    IF quoted
    THEN [escaped |-> escaped, quoted |-> (c \notin {"'", "\n"})]
    ELSE [escaped |-> FALSE, quoted |-> (~escaped /\ c = "'")]

\* is_quoted: the flags after reading c; the function returns the new quoted
is_quoted(c, escaped, quoted) ==
    IF quoted
    THEN [escaped |-> escaped, quoted |-> (c # "'")]
    ELSE IF escaped
         THEN [escaped |-> FALSE, quoted |-> FALSE]
         ELSE [escaped |-> FALSE, quoted |-> (c = "'")]

\* a filter closure that takes nothing for a comment
comment_filter_off(c, commented) == FALSE

\* the filter closure of get_buffer_string: the commented flag after reading c
comment_filter(c, commented) ==
    IF c = "#" THEN TRUE ELSE IF c = "\n" THEN FALSE ELSE commented

\* filter, take_while_inclusive and fold of get_buffer_string over the iterator
RECURSIVE scan_buffer(_, _, _, _, _, _)
scan_buffer(iter, seperators, commented, escaped, quoted, acc) ==
    IF iter = <<>> THEN [buffer |-> acc, rest |-> <<>>]
    ELSE LET c == Head(iter)
             nowCommented == comment_filter(c, commented)
             q == is_quoted(c, escaped, quoted)
         IN IF nowCommented
            THEN scan_buffer(Tail(iter), seperators, TRUE, escaped, quoted, acc)
            ELSE IF q.quoted \/ c \notin seperators
                 THEN scan_buffer(Tail(iter), seperators, FALSE, q.escaped, q.quoted,
                                  Append(acc, c))
                 ELSE [buffer |-> Append(acc, c), rest |-> Tail(iter)]

\* get_buffer_string with a take_while that drops the separator it stops at
get_buffer_string_exclusive(iter, seperators) ==
    LET read == scan_buffer(iter, seperators, FALSE, FALSE, FALSE, <<>>)
    IN IF read.buffer # <<>> /\ read.buffer[Len(read.buffer)] \in seperators
       THEN [buffer |-> SubSeq(read.buffer, 1, Len(read.buffer) - 1), rest |-> read.rest]
       ELSE read

\* get_buffer_string: the buffer read and the iterator left behind
get_buffer_string(iter, seperators) ==
    scan_buffer(iter, seperators, FALSE, FALSE, FALSE, <<>>)

(***************************************************************************)
(* Numbers (objects.rs).                                                   *)
(***************************************************************************)
DELAY_PREFIX == "@"
DURATION_PREFIX == "%"

Digits == <<"0", "1", "2", "3", "4", "5", "6", "7", "8", "9">>
IsDigit(c) == \E d \in 1..10 : Digits[d] = c
DigitValue(c) == (CHOOSE d \in 1..10 : Digits[d] = c) - 1

RECURSIVE DecimalValue(_, _)
DecimalValue(s, acc) ==
    IF s = <<>> THEN acc ELSE DecimalValue(Tail(s), acc * 10 + DigitValue(Head(s)))

RECURSIVE StripZeros(_)
StripZeros(s) == IF s # <<>> /\ Head(s) = "0" THEN StripZeros(Tail(s)) ELSE s

\* u32::MAX, 4294967295, digit by digit
U32MaxDigits == <<"4", "2", "9", "4", "9", "6", "7", "2", "9", "5">>

\* whether the digit string a (no leading zeros) denotes a number above u32::MAX
RECURSIVE DigitsGreater(_, _)
DigitsGreater(a, b) ==
    IF a = <<>> THEN FALSE
    ELSE IF DigitValue(Head(a)) # DigitValue(Head(b))
         THEN DigitValue(Head(a)) > DigitValue(Head(b))
         ELSE DigitsGreater(Tail(a), Tail(b))

AboveU32(digits) ==
    LET d == StripZeros(digits)
    IN Len(d) > Len(U32MaxDigits) \/ (Len(d) = Len(U32MaxDigits) /\ DigitsGreater(d, U32MaxDigits))

Ok(v) == [ok |-> TRUE, value |-> v, kind |-> "ok"]
Err(k) == [ok |-> FALSE, value |-> <<>>, kind |-> k]

\* <u32 as FromStr>::from_str: an optional '+', then one or more digits, in range
ParseU32(s) ==
    LET body == IF s # <<>> /\ Head(s) = "+" THEN Tail(s) ELSE s
    IN IF body = <<>> \/ \E i \in 1..Len(body) : ~IsDigit(body[i])
       THEN Err("InvalidInt")
       ELSE IF AboveU32(body) THEN Err("InvalidInt")
            ELSE Ok(DecimalValue(body, 0))

\* NumberType::has_prefix
has_prefix(string) ==
    StartsWith(string, <<DELAY_PREFIX>>) \/ StartsWith(string, <<DURATION_PREFIX>>)

\* <NumberType as TryFrom<char>>::try_from
NumberType_try_from(value) ==
    IF value = DELAY_PREFIX THEN Ok("Delay")
    ELSE IF value = DURATION_PREFIX THEN Ok("Duration")
    ELSE Err("InvalidNumberPrefix")

\* <Number as FromStr>::from_str; the callers pass a non-empty string
Number_from_str(s) ==
    LET number_type == NumberType_try_from(s[1])
        value == ParseU32(Tail(s))
    IN IF ~number_type.ok THEN Err(number_type.kind)
       ELSE IF ~value.ok THEN Err(value.kind)
       ELSE Ok([value |-> value.value, number_type |-> number_type.value])

\* NumberSet::new and NumberSet::default
NumberSet_new(delay, duration) == [delay |-> delay, duration |-> duration]
NumberSet_default == NumberSet_new(0, 0)

\* new_unordered that takes the numbers in the order written
NumberSet_new_in_order(value_1, value_2) ==
    Ok(NumberSet_new(value_1.value, value_2.value))

\* NumberSet::new_unordered
NumberSet_new_unordered(value_1, value_2) ==
    IF value_1.number_type = "Delay" /\ value_2.number_type = "Duration"
    THEN Ok(NumberSet_new(value_1.value, value_2.value))
    ELSE IF value_1.number_type = "Duration" /\ value_2.number_type = "Delay"
         THEN Ok(NumberSet_new(value_2.value, value_1.value))
         ELSE Err("DuplicateNumberType")

\* NumberSet::new_with_default
NumberSet_new_with_default(number, default) ==
    IF number.number_type = "Delay"
    THEN NumberSet_new(number.value, default.duration)
    ELSE NumberSet_new(default.delay, number.value)

\* the letters A to Z and a to z
UpperCase == <<"A", "B", "C", "D", "E", "F", "G", "H", "I", "J", "K", "L", "M",
               "N", "O", "P", "Q", "R", "S", "T", "U", "V", "W", "X", "Y", "Z">>
LowerCase == <<"a", "b", "c", "d", "e", "f", "g", "h", "i", "j", "k", "l", "m",
               "n", "o", "p", "q", "r", "s", "t", "u", "v", "w", "x", "y", "z">>

(***************************************************************************)
(* f32 (the coordinates of objects.rs) and <f32 as FromStr>::from_str.     *)
(*                                                                         *)
(* An f32 is a record. Class "finite" with neg, m, e is the number          *)
(* (-1)^neg * m * 2^e, m odd and below 2^24, e in -149..127; the two zeros  *)
(* have m = 0 and e = 0. Class "inf" is the infinity of sign neg. Class     *)
(* "nan" is NaN, whose sign and payload no output of the program shows.     *)
(***************************************************************************)
F32Value(class, neg, m, e) == [class |-> class, neg |-> neg, m |-> m, e |-> e]
F32NaN == F32Value("nan", FALSE, 0, 0)
F32Infinity(neg) == F32Value("inf", neg, 0, 0)
F32Zero(neg) == F32Value("finite", neg, 0, 0)

\* (-1)^neg * m * 2^e, the factors two of m moved into e
RECURSIVE F32Finite(_, _, _)
F32Finite(neg, m, e) ==
    IF m = 0 THEN F32Zero(neg)
    ELSE IF m % 2 = 0 THEN F32Finite(neg, m \div 2, e + 1)
    ELSE F32Value("finite", neg, m, e)

\* an integer literal n as f32, -2^24 < n < 2^24
F32(n) == F32Finite(n < 0, IF n < 0 THEN 0 - n ELSE n, 0)

\* Natural numbers of any size: the decimal digits, lowest first, no zero at
\* the high end; <<>> is zero.
RECURSIVE BigTrim(_)
BigTrim(a) == IF a # <<>> /\ a[Len(a)] = 0 THEN BigTrim(SubSeq(a, 1, Len(a) - 1)) ELSE a

RECURSIVE BigFromInt(_)
BigFromInt(n) == IF n = 0 THEN <<>> ELSE <<n % 10>> \o BigFromInt(n \div 10)

RECURSIVE BigToInt(_)
BigToInt(a) == IF a = <<>> THEN 0 ELSE Head(a) + 10 * BigToInt(Tail(a))

\* the digit of a at place i, 0 past its end
BigDigit(a, i) == IF i <= Len(a) THEN a[i] ELSE 0

\* a + b + carry, from place i on
RECURSIVE BigAddCarry(_, _, _, _)
BigAddCarry(a, b, i, carry) ==
    IF i > Len(a) /\ i > Len(b) THEN (IF carry = 0 THEN <<>> ELSE <<carry>>)
    ELSE <<(BigDigit(a, i) + BigDigit(b, i) + carry) % 10>>
         \o BigAddCarry(a, b, i + 1, (BigDigit(a, i) + BigDigit(b, i) + carry) \div 10)

BigAdd(a, b) == BigAddCarry(a, b, 1, 0)
BigDouble(a) == BigAddCarry(a, a, 1, 0)

\* a - b - borrow from place i on, for a >= b
RECURSIVE BigSubBorrow(_, _, _, _)
BigSubBorrow(a, b, i, borrow) ==
    IF i > Len(a) THEN <<>>
    ELSE <<(a[i] - BigDigit(b, i) - borrow + 10) % 10>>
         \o BigSubBorrow(a, b, i + 1, IF a[i] - BigDigit(b, i) - borrow < 0 THEN 1 ELSE 0)

BigSub(a, b) == BigTrim(BigSubBorrow(a, b, 1, 0))

\* a < b
RECURSIVE BigLessFrom(_, _, _)
BigLessFrom(a, b, i) ==
    IF i = 0 THEN FALSE
    ELSE IF a[i] # b[i] THEN a[i] < b[i]
    ELSE BigLessFrom(a, b, i - 1)

BigLess(a, b) == IF Len(a) # Len(b) THEN Len(a) < Len(b) ELSE BigLessFrom(a, b, Len(a))

\* a * 2^k
RECURSIVE BigTimesPow2(_, _)
BigTimesPow2(a, k) == IF k = 0 THEN a ELSE BigTimesPow2(BigDouble(a), k - 1)

\* 10^k
BigPow10(k) == [i \in 1..(k + 1) |-> IF i = k + 1 THEN 1 ELSE 0]

\* The exponent at which N/M * 2^e has a 24-bit significand, or -149 for a
\* subnormal: D stands for M * 2^23 and D2 for twice D; N/M * 2^e keeps its
\* value while N or D doubles.
RECURSIVE F32Scale(_, _, _, _)
F32Scale(N, D, D2, e) ==
    IF e < -149 \/ ~BigLess(N, D2) THEN F32Scale(N, D2, BigDouble(D2), e + 1)
    ELSE IF e > -149 /\ BigLess(N, D) THEN F32Scale(BigDouble(N), D, D2, e - 1)
    ELSE [N |-> N, D |-> D, e |-> e]

\* Long division for R < 2 D: the quotient of the given number of bits, after
\* the bits q found before, and the remainder. F32DivideBit has the bit found
\* and F32DivideRest the remainder under it.
RECURSIVE F32Divide(_, _, _, _)
RECURSIVE F32DivideBit(_, _, _, _, _)
RECURSIVE F32DivideRest(_, _, _, _)
F32DivideRest(rest, D, bits, found) ==
    IF bits = 1 THEN [q |-> found, R |-> rest]
    ELSE F32Divide(BigDouble(rest), D, bits - 1, found)
F32DivideBit(R, D, bits, q, bit) ==
    F32DivideRest(IF bit THEN BigSub(R, D) ELSE R, D, bits, 2 * q + (IF bit THEN 1 ELSE 0))
F32Divide(R, D, bits, q) == F32DivideBit(R, D, bits, q, ~BigLess(R, D))

\* the f32 of the significand q at the exponent e, the infinity past f32::MAX
F32Overflow(neg, q, e) ==
    IF e > 104 \/ (e = 104 /\ q = 16777216) THEN F32Infinity(neg) ELSE F32Finite(neg, q, e)

\* the quotient q with twice its remainder: up when above the half of D, and
\* at the half when q is odd
F32Nearest(neg, q, twice, D, e) ==
    F32Overflow(neg, IF BigLess(D, twice) \/ (twice = D /\ q % 2 = 1) THEN q + 1 ELSE q, e)

F32Quotient(neg, divided, D, e) == F32Nearest(neg, divided.q, BigDouble(divided.R), D, e)
F32Scaled(neg, scaled) ==
    F32Quotient(neg, F32Divide(scaled.N, scaled.D, 24, 0), scaled.D, scaled.e)
F32Slow(neg, N, D, e) == F32Scaled(neg, F32Scale(N, D, BigDouble(D), e))

\* The f32 nearest to (-1)^neg * N/M * 2^e for N > 0, ties to the even
\* significand, the infinity past f32::MAX. A number of at most seven digits
\* at an exponent of f32 is an f32 as it stands.
F32Round(neg, N, M, e) ==
    IF M = <<1>> /\ Len(N) <= 7 /\ e >= -149 /\ e <= 104 THEN F32Finite(neg, BigToInt(N), e)
    ELSE F32Slow(neg, N, BigTimesPow2(M, 23), e)

\* x and y of the signs given, at the exponent e, added
F32Sum(xneg, x, yneg, y, e) ==
    IF xneg # yneg /\ x = y THEN F32Zero(FALSE)
    ELSE F32Round(IF xneg = yneg \/ BigLess(y, x) THEN xneg ELSE yneg,
                  IF xneg = yneg THEN BigAdd(x, y)
                  ELSE IF BigLess(y, x) THEN BigSub(x, y) ELSE BigSub(y, x),
                  <<1>>, e)

\* f32 addition (the + of parse_coordinate)
f32_add(a, b) ==
    IF a.class = "nan" \/ b.class = "nan" THEN F32NaN
    ELSE IF a.class = "inf" THEN (IF b.class = "inf" /\ a.neg # b.neg THEN F32NaN ELSE a)
    ELSE IF b.class = "inf" THEN b
    ELSE IF a.m = 0 /\ b.m = 0 THEN F32Zero(a.neg /\ b.neg)
    ELSE IF a.m = 0 THEN b
    ELSE IF b.m = 0 THEN a
    ELSE F32Sum(a.neg, BigTimesPow2(BigFromInt(a.m), IF a.e < b.e THEN 0 ELSE a.e - b.e),
                b.neg, BigTimesPow2(BigFromInt(b.m), IF a.e < b.e THEN b.e - a.e ELSE 0),
                IF a.e < b.e THEN a.e ELSE b.e)

\* the number of digits s starts with
DigitsPrefix(s) ==
    CHOOSE k \in 0..Len(s) : (\A i \in 1..k : IsDigit(s[i])) /\ (k = Len(s) \/ ~IsDigit(s[k + 1]))

\* the exponent of a float literal, as the parser accumulates it: the digits
\* count while the value is below 0x10000
RECURSIVE ExponentValue(_, _)
ExponentValue(digits, acc) ==
    IF digits = <<>> THEN acc
    ELSE ExponentValue(Tail(digits), IF acc < 65536 THEN 10 * acc + DigitValue(Head(digits)) ELSE acc)

\* the exponent part of a literal, the text after its digits: nothing, or e
\* or E, a sign or none, and one digit or more
ExponentDigits(negative, digits) ==
    IF digits = <<>> \/ \E i \in 1..Len(digits) : ~IsDigit(digits[i]) THEN Err("InvalidCoordinate")
    ELSE Ok((IF negative THEN -1 ELSE 1) * ExponentValue(digits, 0))
ExponentPart(rest) ==
    IF rest = <<>> THEN Ok(0)
    ELSE IF Head(rest) \notin {"e", "E"} THEN Err("InvalidCoordinate")
    ELSE IF Len(rest) > 1 /\ rest[2] \in {"+", "-"}
    THEN ExponentDigits(rest[2] = "-", SubSeq(rest, 3, Len(rest)))
    ELSE ExponentDigits(FALSE, Tail(rest))

\* the decimal number of the digits, the highest first and not zero, times
\* 10^exponent, as f32
F32Significant(neg, significant, exponent) ==
    IF significant = <<>> THEN F32Zero(neg)
    ELSE IF Len(significant) + exponent > 39 THEN F32Infinity(neg)
    ELSE IF Len(significant) + exponent < -45 THEN F32Zero(neg)
    ELSE F32Round(neg,
                  [i \in 1..(IF exponent > 0 THEN exponent ELSE 0) |-> 0]
                     \o [i \in 1..Len(significant) |->
                            DigitValue(significant[Len(significant) + 1 - i])],
                  BigPow10(IF exponent < 0 THEN 0 - exponent ELSE 0), 0)

F32Decimal(neg, digits, exponent) == F32Significant(neg, StripZeros(digits), exponent)

\* the float literal of the digits, fraction of them behind the point, and the
\* exponent part
F32Literal(neg, digits, fraction, exponent) ==
    IF digits = <<>> \/ ~exponent.ok THEN Err("InvalidCoordinate")
    ELSE Ok(F32Decimal(neg, digits, exponent.value - fraction))

\* the literal from its point on, behind the digits whole; fraction is the
\* number of digits behind the point
F32Fraction(neg, whole, rest, fraction) ==
    F32Literal(neg, whole \o SubSeq(rest, 1, fraction), fraction,
               ExponentPart(SubSeq(rest, fraction + 1, Len(rest))))
F32Point(neg, whole, rest) ==
    F32Fraction(neg, whole, IF rest # <<>> /\ Head(rest) = "." THEN Tail(rest) ELSE rest,
                IF rest # <<>> /\ Head(rest) = "." THEN DigitsPrefix(Tail(rest)) ELSE 0)
F32Whole(neg, body, whole) == F32Point(neg, SubSeq(body, 1, whole), SubSeq(body, whole + 1, Len(body)))

\* the float literal without its sign: digits, with or without a point and
\* digits behind it, one digit at least, and with or without an exponent
F32Number(neg, body) == F32Whole(neg, body, DigitsPrefix(body))

\* whether s is the word, letter case aside (eq_ignore_ascii_case)
IsWord(s, word) ==
    /\ Len(s) = Len(word)
    /\ \A i \in 1..Len(s) :
          s[i] = word[i] \/ \E j \in 1..26 : LowerCase[j] = word[i] /\ UpperCase[j] = s[i]

\* a float literal, or else inf, infinity or nan in any letter case
F32OrWord(neg, body, number) ==
    IF number.ok THEN number
    ELSE IF IsWord(body, <<"n", "a", "n">>) THEN Ok(F32NaN)
    ELSE IF IsWord(body, <<"i", "n", "f">>)
            \/ IsWord(body, <<"i", "n", "f", "i", "n", "i", "t", "y">>)
    THEN Ok(F32Infinity(neg))
    ELSE Err("InvalidCoordinate")
F32Signed(neg, body) == F32OrWord(neg, body, F32Number(neg, body))

\* <f32 as FromStr>::from_str: an optional sign, then a float literal, or
\* inf, infinity or nan in any letter case
ParseF32(s) ==
    F32Signed(s # <<>> /\ Head(s) = "-",
              IF s # <<>> /\ Head(s) \in {"+", "-"} THEN Tail(s) ELSE s)

(***************************************************************************)
(* Transformations and entities (objects.rs).                              *)
(***************************************************************************)
Vec3(x, y, z) == [x |-> x, y |-> y, z |-> z]

\* Transformation::default
Transformation_default ==
    [translation |-> Vec3(F32(0), F32(0), F32(0)), rotation |-> Vec3(F32(0), F32(0), F32(0)),
     scale |-> Vec3(F32(0), F32(0), F32(0))]

\* SimpleTransformation::get_x/get_y/get_z of Translation, Rotation and Scale:
\* the recorded component of the transformation kind
component(kind, transformation) ==
    IF kind = "Translate" THEN transformation.translation
    ELSE IF kind = "Rotate" THEN transformation.rotation
    ELSE transformation.scale

\* a transform that records t and resets the components of the other kinds
transform_resets(kind, t, transformation) ==
    IF kind = "Translate" THEN [Transformation_default EXCEPT !.translation = t]
    ELSE IF kind = "Rotate" THEN [Transformation_default EXCEPT !.rotation = t]
    ELSE [Transformation_default EXCEPT !.scale = t]

\* a transform that records nothing
transform_forgets(kind, t, transformation) == transformation

\* SimpleTransformation::transform: with_translation, with_rotation, with_scale
transform(kind, t, transformation) ==
    IF kind = "Translate" THEN [transformation EXCEPT !.translation = t]
    ELSE IF kind = "Rotate" THEN [transformation EXCEPT !.rotation = t]
    ELSE [transformation EXCEPT !.scale = t]

\* Entity::new: a named entity with no transformation recorded yet
Entity_new(name) == [name |-> name, transformation |-> Transformation_default]

\* str::replace(from, to): every non-overlapping match, left to right
RECURSIVE Replace(_, _, _)
Replace(s, from, to) ==
    IF s = <<>> THEN <<>>
    ELSE IF StartsWith(s, from) THEN to \o Replace(SubSeq(s, Len(from) + 1, Len(s)), from, to)
    ELSE <<Head(s)>> \o Replace(Tail(s), from, to)

\* Regexes::VALID_CHARACTER_REGEX, ^[A-Za-z0-9_\-]*$
ValidCharacter(c) ==
    \/ \E i \in 1..26 : UpperCase[i] = c \/ LowerCase[i] = c
    \/ IsDigit(c)
    \/ c \in {"_", "-"}
valid_character_is_match(s) == \A i \in 1..Len(s) : ValidCharacter(s[i])

(***************************************************************************)
(* The statement parser (statements.rs).                                   *)
(***************************************************************************)
OBJECT_STR == <<"o", "b", "j", "e", "c", "t">>
ANIMATION_STR == <<"a", "n", "i", "m">>
END_STR == <<"e", "n", "d">>

\* remove_last_char, on a non-empty string
remove_last_char(s) == SubSeq(s, 1, Len(s) - 1)

\* what a parse function hands back: an error kind, or a statement, with the
\* entity map as the call left it
Parsed(statement, entities) == [kind |-> "ok", statement |-> statement, entities |-> entities]
Failed(kind, entities) == [kind |-> kind, statement |-> [type |-> "None"], entities |-> entities]

\* the Kelvin sign, the one character beside the letters A to Z whose lower case
\* is a letter a to z (k)
KELVIN_SIGN == "U+212A"

\* s.to_lowercase() == keyword, for a keyword of letters a to z: every character
\* of s is the keyword's letter, its capital, or the Kelvin sign for k. (Every
\* other character has a lower case outside a to z: that of U+0130 is i and
\* U+0307.)
to_lowercase_is(s, keyword) ==
    /\ Len(s) = Len(keyword)
    /\ \A i \in 1..Len(s) :
          \/ s[i] = keyword[i]
          \/ \E j \in 1..26 : LowerCase[j] = keyword[i] /\ UpperCase[j] = s[i]
          \/ keyword[i] = "k" /\ s[i] = KELVIN_SIGN

\* <Keyword as FromStr>::from_str
Keyword_from_str(s) ==
    LET is(keywords) == \E keyword \in keywords : to_lowercase_is(s, keyword)
    IN IF is({<<"t", "r", "a", "n", "s", "l", "a", "t", "e">>, <<"m", "o", "v", "e">>, <<"m">>})
       THEN Ok("Translate")
       ELSE IF is({<<"r", "o", "t", "a", "t", "e">>, <<"t", "u", "r", "n">>, <<"r">>})
       THEN Ok("Rotate")
       ELSE IF is({<<"s", "c", "a", "l", "e">>, <<"s", "i", "z", "e">>, <<"s">>})
       THEN Ok("Scale")
       ELSE IF is({<<"s", "p", "a", "w", "n">>}) THEN Ok("Spawn")
       ELSE IF is({<<"i", "t", "e", "m">>}) THEN Ok("Item")
       ELSE IF is({<<"b", "l", "o", "c", "k">>}) THEN Ok("Block")
       ELSE IF is({<<"t", "e", "x", "t">>}) THEN Ok("Text")
       ELSE Err("InvalidKeyword")

\* Statement::parse_block_start
parse_block_start(buffer, numbers) ==
    LET words == Split(buffer, " ")
    IN IF ~(Len(words) > 1) THEN Err("IncorrectArgumentCount")
       ELSE IF ~(Len(words) < 4) THEN Err("IncorrectArgumentCount")
       ELSE Ok([type |-> "Block", numbers |-> numbers])

\* Statement::parse_block_end
parse_block_end(buffer) ==
    IF ~(Len(buffer) <= 1) THEN Err("TooManyCharacters")
    ELSE Ok([type |-> "BlockEnd"])

\* Statement::parse_name_declaration; return_value is ObjectName or AnimationName
parse_name_declaration(buffer, keyword, return_value) ==
    LET split == SplitOnce(buffer, " ")
    IN IF ~EndsWith(buffer, <<";">>) THEN Err("IncorrectSeparator")
       ELSE IF ~split.some THEN Err("KeywordWithoutArguments")
       ELSE LET argument == remove_last_char(split.after)
            IN IF ~valid_character_is_match(argument) THEN Err("InvalidCharacters")
               ELSE Ok([type |-> return_value, name |-> argument])

\* parse_end without the check of the number's type
parse_end_any_type(number, buffer) ==
    LET words == Split(buffer, " ")
    IN IF ~EndsWith(buffer, <<";">>) THEN Err("IncorrectSeparator")
       ELSE IF Len(words) # 2 THEN Err("IncorrectArgumentCount")
       ELSE IF remove_last_char(words[Len(words)]) # END_STR THEN Err("InvalidKeyword")
       ELSE Ok([type |-> "End", delay |-> number.value])

\* Statement::parse_end
parse_end(number, buffer) ==
    LET words == Split(buffer, " ")
    IN IF ~EndsWith(buffer, <<";">>) THEN Err("IncorrectSeparator")
       ELSE IF number.number_type # "Delay" THEN Err("IncorrectNumberType")
       ELSE IF Len(words) # 2 THEN Err("IncorrectArgumentCount")
       ELSE IF remove_last_char(words[Len(words)]) # END_STR THEN Err("InvalidKeyword")
       ELSE Ok([type |-> "End", delay |-> number.value])

\* parse::<f32>()? + current
plus_current(parsed, current) ==
    IF parsed.ok THEN Ok(f32_add(parsed.value, current)) ELSE parsed

\* Statement::parse_coordinate
Statement_parse_coordinate(coordinate, current) ==
    IF StartsWith(coordinate, <<"~">>)
    THEN plus_current(ParseF32(Replace(Replace(coordinate, <<"~", "-">>, <<"-", "0">>),
                                       <<"~">>, <<"0">>)), current)
    ELSE ParseF32(coordinate)

\* Statement::parse_transformation::<T>, from the three coordinates on
transformation_parsed(kind, numbers, entity_name, inserted, x, y, z) ==
    IF ~x.ok THEN Failed(x.kind, inserted)
    ELSE IF ~y.ok THEN Failed(y.kind, inserted)
    ELSE IF ~z.ok THEN Failed(z.kind, inserted)
    ELSE LET entity == inserted[entity_name]
             t == Vec3(x.value, y.value, z.value)
             moved == [entity EXCEPT
                          !.transformation = transform(kind, t, entity.transformation)]
         IN Parsed([type |-> "Keyword", numbers |-> numbers, entity |-> moved,
                    keyword |-> kind, value |-> t],
                   [inserted EXCEPT ![entity_name] = moved])

\* Statement::parse_transformation::<T>, from the entity's current component on
transformation_at(kind, numbers, arguments, inserted, current) ==
    transformation_parsed(kind, numbers, arguments[1], inserted,
                          Statement_parse_coordinate(arguments[2], current.x),
                          Statement_parse_coordinate(arguments[3], current.y),
                          Statement_parse_coordinate(arguments[4], current.z))

\* Statement::parse_transformation::<T>, from the entity map with the entity on
transformation_of(kind, numbers, arguments, inserted) ==
    transformation_at(kind, numbers, arguments, inserted,
                      component(kind, inserted[arguments[1]].transformation))

\* Statement::parse_transformation::<T>, T given by its keyword
parse_transformation(kind, numbers, arguments, entities) ==
    IF Len(arguments) # 4 THEN Failed("IncorrectArgumentCount", entities)
    ELSE transformation_of(kind, numbers, arguments,
                           IF arguments[1] \in DOMAIN entities THEN entities
                           ELSE [n \in DOMAIN entities \cup {arguments[1]} |->
                                    IF n = arguments[1] THEN Entity_new(arguments[1])
                                    ELSE entities[n]])

\* a partial override that starts from the default NumberSet instead of the
\* inherited one
partial_override_from_default(first_number, current_numbers) ==
    IF first_number.number_type = "Delay"
    THEN NumberSet_new(first_number.value, NumberSet_default.duration)
    ELSE NumberSet_new(NumberSet_default.delay, first_number.value)

\* the partial override of Statement::parse_from_file: one number replaces the
\* field of its type in the inherited NumberSet
partial_override(first_number, current_numbers) ==
    IF first_number.number_type = "Delay"
    THEN NumberSet_new(first_number.value, current_numbers.duration)
    ELSE NumberSet_new(current_numbers.delay, first_number.value)

\* the closure that maps the argument words: a trailing ';' is removed
strip_arguments(words) ==
    [i \in 1..Len(words) |->
        IF EndsWith(words[i], <<";">>) THEN remove_last_char(words[i]) ELSE words[i]]

\* what the recogniser part of parse_from_file yields: an early return, or the
\* keyword with the resolved numbers and the words left over
Return(result) ==
    [return |-> TRUE, result |-> result, keyword |-> <<>>,
     numbers |-> NumberSet_default, words |-> <<>>]
Recognised(keyword, numbers, words) ==
    [return |-> FALSE, result |-> Err("none"), keyword |-> keyword,
     numbers |-> numbers, words |-> words]

\* Statement::parse_from_file, from the split into words to the keyword
recognise(buffer, current_numbers) ==
    LET words == Split(buffer, " ")
        first_word == words[1]
    IN IF ~has_prefix(first_word)
       THEN Recognised(first_word, current_numbers, Tail(words))
       ELSE LET first_number == Number_from_str(first_word)
            IN IF ~first_number.ok THEN Return(Err(first_number.kind))
               ELSE IF Len(words) < 2 THEN Return(Err("LineEmpty"))
               ELSE LET second_word == words[2]
                    IN IF ~has_prefix(second_word)
                       THEN IF Contains(second_word, END_STR)
                            THEN Return(parse_end(first_number.value, buffer))
                            ELSE Recognised(second_word,
                                            partial_override(first_number.value, current_numbers),
                                            SubSeq(words, 3, Len(words)))
                       ELSE LET second_number == Number_from_str(second_word)
                                numbers == NumberSet_new_unordered(first_number.value,
                                                                   second_number.value)
                            IN IF ~second_number.ok THEN Return(Err(second_number.kind))
                               ELSE IF ~numbers.ok THEN Return(Err(numbers.kind))
                               ELSE IF Len(words) < 3 THEN Return(Err("LineEmpty"))
                               ELSE Recognised(words[3], numbers.value,
                                               SubSeq(words, 4, Len(words)))

\* Statement::parse_from_file, from the keyword on
dispatch(buffer, keyword, numbers, arguments, entities) ==
    LET lift(r) == IF r.ok THEN Parsed(r.value, entities) ELSE Failed(r.kind, entities)
        parsed_keyword == Keyword_from_str(keyword)
    IN IF keyword = <<BLOCK_START_CHAR>> THEN lift(parse_block_start(buffer, numbers))
       ELSE IF ~EndsWith(buffer, <<";">>) THEN Failed("IncorrectSeparator", entities)
       ELSE IF ~parsed_keyword.ok THEN Failed(parsed_keyword.kind, entities)
       ELSE IF parsed_keyword.value \in {"Translate", "Rotate", "Scale"}
            THEN parse_transformation(parsed_keyword.value, numbers, arguments, entities)
            ELSE Failed("panic: not yet implemented", entities)

\* Statement::parse_from_file, after the recogniser
after_recognise(buffer, r, entities) ==
    IF r.return
    THEN IF r.result.ok THEN Parsed(r.result.value, entities)
         ELSE Failed(r.result.kind, entities)
    ELSE dispatch(buffer, r.keyword, r.numbers, strip_arguments(r.words), entities)

\* Statement::parse_from_file on an already trimmed buffer
parse_buffer(buffer, current_numbers, entities) ==
    LET lift(r) == IF r.ok THEN Parsed(r.value, entities) ELSE Failed(r.kind, entities)
    IN IF buffer = <<>> THEN Parsed([type |-> "EndOfFile"], entities)
       ELSE IF StartsWith(buffer, <<BLOCK_END_CHAR>>) THEN lift(parse_block_end(buffer))
       ELSE IF StartsWith(buffer, OBJECT_STR)
            THEN lift(parse_name_declaration(buffer, OBJECT_STR, "ObjectName"))
       ELSE IF StartsWith(buffer, ANIMATION_STR)
            THEN lift(parse_name_declaration(buffer, ANIMATION_STR, "AnimationName"))
       ELSE after_recognise(buffer, recognise(buffer, current_numbers), entities)

\* what Statement::parse_from_file leaves: the parse of the buffer read, and
\* the iterator behind it
parse_result(read, parsed) ==
    [kind |-> parsed.kind, statement |-> parsed.statement, entities |-> parsed.entities,
     rest |-> read.rest, buffer |-> read.buffer]

\* Statement::parse_from_file on the buffer read from the iterator
parse_read(read, current_numbers, entities) ==
    parse_result(read, parse_buffer(Trim(read.buffer), current_numbers, entities))

\* Statement::parse_from_file: reads one buffer from the iterator and parses it
Statement_parse_from_file(iter, current_numbers, entities) ==
    parse_read(get_buffer_string(iter, Separators), current_numbers, entities)

\* queue_after with a block end that pops nothing
queue_after_keeps(queue, statement) ==
    IF statement.type = "Block" THEN Append(queue, statement.numbers) ELSE queue

\* the match of Program::parse_statements on the statement parsed
queue_after(queue, statement) ==
    IF statement.type = "Block" THEN Append(queue, statement.numbers)
    ELSE IF statement.type = "BlockEnd" THEN SubSeq(queue, 1, Len(queue) - 1)
    ELSE queue

\* the body of the loop of Program::parse_statements, next being what
\* Statement::parse_from_file returned
loop_body(next) ==
    /\ contents' = next.rest
    /\ raw_buffers' = Append(raw_buffers, next.buffer)
    /\ entity_map' = next.entities
    /\ IF next.kind # "ok"
       THEN outcome' = next.kind /\ UNCHANGED <<block_queue, statements>>
       ELSE IF next.statement.type = "EndOfFile"
            THEN outcome' = "ok" /\ UNCHANGED <<block_queue, statements>>
            ELSE /\ block_queue' = queue_after(block_queue, next.statement)
                 /\ statements' = Append(statements, next.statement)
                 /\ UNCHANGED outcome

\* One turn of the loop of Program::parse_statements.
ParseStep ==
    /\ outcome = "running"
    /\ IF block_queue = <<>>
       THEN /\ outcome' = "BlockQueueEmpty"
            /\ UNCHANGED <<contents, raw_buffers, block_queue, entity_map, statements>>
       ELSE loop_body(Statement_parse_from_file(contents, block_queue[Len(block_queue)],
                                                entity_map))
    /\ UNCHANGED <<source, mainVars, tickVars, readerVars, tokenVars>>

(***************************************************************************)
(* Source texts the source files of the model are made of.                 *)
(***************************************************************************)
\* @5 %7 {
BlockBothText == <<"@", "5", " ", "%", "7", " ", "{">>
\* %4 {
BlockDurationText == <<"%", "4", " ", "{">>
\* {
BlockBareText == <<"{">>
\* }
BlockEndText == <<"}">>
\* m e 1 0 0;
MoveText == <<"m", " ", "e", " ", "1", " ", "0", " ", "0", ";">>
\* @2 m e 1 0 0;
DelayedMoveText == <<"@", "2", " ", "m", " ", "e", " ", "1", " ", "0", " ", "0", ";">>
\* m e 1 0;
ShortMoveText == <<"m", " ", "e", " ", "1", " ", "0", ";">>
\* m e x 0 0;
LetterMoveText == <<"m", " ", "e", " ", "x", " ", "0", " ", "0", ";">>
\* jump e 1 0 0;
JumpText == <<"j", "u", "m", "p", " ", "e", " ", "1", " ", "0", " ", "0", ";">>
\* r f 2 0 0;
TurnText == <<"r", " ", "f", " ", "2", " ", "0", " ", "0", ";">>

\* a source file: its statements, one per line
RECURSIVE FileText(_)
FileText(texts) ==
    IF texts = <<>> THEN <<>> ELSE Head(texts) \o <<"\n">> \o FileText(Tail(texts))

(***************************************************************************)
(* Initial states.                                                         *)
(***************************************************************************)
IdleLex == source = <<>> /\ contents = <<>> /\ raw_buffers = <<>>
IdleParse == block_queue = <<>> /\ entity_map = <<>> /\ statements = <<>> /\ outcome = "idle"
IdleMain ==
    /\ results = <<>> /\ collected = <<>> /\ pending = <<>> /\ main_pc = "idle"
    /\ tick_function = <<>> /\ outputs = <<>> /\ main_result = "none"
IdleTick ==
    /\ program_statements = <<>> /\ function = <<>> /\ timer = 0 /\ flags = 0
    /\ timer_at_dispatch = 0 /\ pc = 0 /\ overflow_checks = FALSE

IdleToken ==
    number_token = <<>> /\ number_parsed = <<>> /\ number_shown = <<>> /\ number_reparsed = <<>> /\ token_pc = "idle"

IdleReader ==
    /\ reader_pc = "idle" /\ reader_raw = <<>> /\ reader_named = <<>>
    /\ reader_flat = <<>> /\ reader_result = <<>>

\* Program::parse_statements before its loop, on the file text
ParseStart(text) ==
    /\ source = text
    /\ contents = text
    /\ raw_buffers = <<>>
    /\ block_queue = <<NumberSet_default>>
    /\ entity_map = <<>>
    /\ statements = <<>>
    /\ outcome = "running"
    /\ IdleMain /\ IdleTick /\ IdleReader /\ IdleToken

\* files of block definitions, block ends and transform statements
BlockMenu ==
    {BlockBothText, BlockDurationText, BlockBareText, BlockEndText, MoveText, DelayedMoveText}
InitBlocks == \E texts \in SeqUpTo(BlockMenu, MaxBlockStatements) : ParseStart(FileText(texts))
NextBlocks == ParseStep
SpecBlocks == InitBlocks /\ [][NextBlocks]_vars

\* files of well-formed and malformed transform statements
ErrorMenu == {MoveText, TurnText, ShortMoveText, LetterMoveText, JumpText}
InitErrors == \E texts \in SeqUpTo(ErrorMenu, MaxStatements) : ParseStart(FileText(texts))
NextErrors == ParseStep
SpecErrors == InitErrors /\ [][NextErrors]_vars

\* a statement of words, one space between two words
RECURSIVE JoinWords(_)
JoinWords(words) ==
    IF Len(words) = 1 THEN words[1] ELSE words[1] \o <<" ">> \o JoinWords(Tail(words))

\* files of one statement or block definition with no, one or two numeric
\* prefixes, alone or inside a block
PrefixWords == {<<"@", "1">>, <<"@", "3">>, <<"%", "2">>, <<"%", "4">>, <<"@", "x">>}
BodyWords == {<<"m", " ", "e", " ", "1", " ", "0", " ", "0", ";">>, <<"e", "n", "d", ";">>, <<"{">>}
PrefixedTexts ==
    BodyWords
    \cup {JoinWords(<<p, b>>) : p \in PrefixWords, b \in BodyWords}
    \cup {JoinWords(<<p[1], p[2], b>>) : p \in PrefixWords \X PrefixWords, b \in BodyWords}
InitNumbers ==
    \E outer \in {<<>>, <<BlockBothText>>}, text \in PrefixedTexts :
        ParseStart(FileText(outer \o <<text>>))
NextNumbers == ParseStep
SpecNumbers == InitNumbers /\ [][NextNumbers]_vars

(***************************************************************************)
(* The buffer extractor called again and again on one character stream,    *)
(* as Statement::parse_from_file calls it, until the stream is exhausted.  *)
(***************************************************************************)
LexAlphabet == {"a", " ", ";", "{", "}", "'", "#", "\n", "\\"}

InitLex ==
    /\ source \in SeqUpTo(LexAlphabet, MaxLexLen)
    /\ contents = source
    /\ raw_buffers = <<>>
    /\ IdleParse /\ IdleMain /\ IdleTick /\ IdleReader /\ IdleToken

\* the buffer a call returned, and the iterator it left
take_buffer(read) ==
    /\ contents' = read.rest
    /\ raw_buffers' = Append(raw_buffers, read.buffer)

\* One call of get_buffer_string.
GetBuffer ==
    /\ contents # <<>>
    /\ take_buffer(get_buffer_string(contents, Separators))
    /\ UNCHANGED <<source, parseVars, mainVars, tickVars, readerVars, tokenVars>>

NextLex == GetBuffer
SpecLex == InitLex /\ [][NextLex]_vars

(***************************************************************************)
(* Notions the claims are stated with.                                     *)
(***************************************************************************)
RECURSIVE CountIn(_, _)
\* how many elements of the sequence s lie in the set S
CountIn(s, S) ==
    IF s = <<>> THEN 0 ELSE (IF Head(s) \in S THEN 1 ELSE 0) + CountIn(Tail(s), S)

\* the statements before the i-th
Before(i) == SubSeq(statements, 1, i - 1)

\* blocks opened and not yet closed in a sequence of statements
RECURSIVE Depth(_)
Depth(stmts) ==
    IF stmts = <<>> THEN 0
    ELSE Depth(SubSeq(stmts, 1, Len(stmts) - 1))
         + (IF stmts[Len(stmts)].type = "Block" THEN 1
            ELSE IF stmts[Len(stmts)].type = "BlockEnd" THEN 0 - 1 ELSE 0)

\* the pair of the innermost block still open at the end of a sequence of
\* statements, the default pair outside every block; closed counts the
\* block ends whose block start is still to be met, walking backwards
RECURSIVE InnermostOpen(_, _)
InnermostOpen(stmts, closed) ==
    IF stmts = <<>> THEN NumberSet_default
    ELSE LET last == stmts[Len(stmts)]
             front == SubSeq(stmts, 1, Len(stmts) - 1)
         IN IF last.type = "BlockEnd" THEN InnermostOpen(front, closed + 1)
            ELSE IF last.type = "Block"
                 THEN IF closed = 0 THEN last.numbers ELSE InnermostOpen(front, closed - 1)
                 ELSE InnermostOpen(front, closed)

\* the trimmed buffer the i-th call of the parser read
BufferRead(i) == Trim(raw_buffers[i])

\* the parse is over
Finished == outcome \notin {"idle", "running"}

\* a block end was read while only the base entry was on the stack
UnmatchedBlockEnd ==
    \E i \in 1..Len(statements) : statements[i].type = "BlockEnd" /\ Depth(Before(i)) = 0

(***************************************************************************)
(* Claims on the block-scope resolver, under SpecBlocks.                   *)
(***************************************************************************)

\* C1: a block end read while the stack holds only its base entry makes the
\* parse of the file fail with an unbalanced-brackets error, and with no other
\* error kind.
C1_UnbalancedBracketsError ==
    (Finished /\ UnmatchedBlockEnd) => outcome = "UnbalancedBrackets"

\* C2: in every state of the resolver the stack holds at least one entry and
\* its bottom entry is the default pair: no block end removes the base entry.
C2_BaseEntryStays ==
    outcome # "idle" => (Len(block_queue) >= 1 /\ block_queue[1] = NumberSet_default)

\* C3, as claimed: every block, a block opened by a bare '{' included, is
\* opened, and a statement with no numeric prefix resolves to the pair of the
\* innermost block around it (the parent's pair again after a block end).
C3_Resolves ==
    \A i \in 1..Len(statements) :
        /\ (statements[i].type = "Keyword" /\ ~has_prefix(BufferRead(i)))
              => statements[i].numbers = InnermostOpen(Before(i), 0)
        /\ BufferRead(i) = BlockBothText
              => statements[i] = [type |-> "Block", numbers |-> NumberSet_new(5, 7)]
        /\ BufferRead(i) = BlockDurationText
              => statements[i] = [type |-> "Block",
                                  numbers |-> NumberSet_new(InnermostOpen(Before(i), 0).delay, 4)]
C3_BareBlockOpens ==
    /\ C3_Resolves
    /\ \A i \in 1..Len(raw_buffers) :
          BufferRead(i) = BlockBareText
             => /\ i <= Len(statements)
                /\ statements[i] = [type |-> "Block", numbers |-> InnermostOpen(Before(i), 0)]

\* C3, amended: the same for blocks opened with one or two numeric prefixes;
\* a bare '{' is refused with an incorrect-argument-count error.
C3_PrefixedBlocksResolve ==
    /\ C3_Resolves
    /\ \A i \in 1..Len(raw_buffers) :
          BufferRead(i) = BlockBareText
             => /\ i = Len(statements) + 1
                /\ outcome = "IncorrectArgumentCount"

\* two nested blocks, a statement in the inner one, and a statement after the
\* inner block's end that got the outer block's pair back
C3_Witness ==
    /\ Len(statements) = 5
    /\ statements[1] = [type |-> "Block", numbers |-> NumberSet_new(5, 7)]
    /\ statements[2] = [type |-> "Block", numbers |-> NumberSet_new(5, 4)]
    /\ statements[3].type = "Keyword" /\ statements[3].numbers = NumberSet_new(5, 4)
    /\ statements[4].type = "BlockEnd"
    /\ statements[5].type = "Keyword" /\ statements[5].numbers = NumberSet_new(5, 7)
    /\ ~has_prefix(BufferRead(3)) /\ ~has_prefix(BufferRead(5))

(***************************************************************************)
(* Claims on the keyword/number recogniser, under SpecNumbers.             *)
(***************************************************************************)
\* a word that is a type prefix followed by one or more digits
IsNumberWord(w) ==
    /\ Len(w) >= 2
    /\ w[1] \in {DELAY_PREFIX, DURATION_PREFIX}
    /\ \A i \in 2..Len(w) : IsDigit(w[i])

\* the first two words of the buffer are numbers of one type
TwoNumbersOfOneType(buffer) ==
    LET words == Split(buffer, " ")
    IN /\ Len(words) >= 2
       /\ IsNumberWord(words[1]) /\ IsNumberWord(words[2])
       /\ words[1][1] = words[2][1]

\* the buffer of the last call of the parser
LastBuffer == BufferRead(Len(raw_buffers))

\* C4: when the first two words of a statement or block definition are valid
\* prefixed numbers of the same type, parsing fails with a
\* duplicate-number-type error, whatever keyword follows.
C4_DuplicateNumberType ==
    \A i \in 1..Len(raw_buffers) :
        TwoNumbersOfOneType(BufferRead(i))
           => /\ i = Len(raw_buffers)
              /\ Len(statements) = i - 1
              /\ outcome = "DuplicateNumberType"

\* two Duration numbers before a block start, inside a block, were refused
C4_Witness ==
    /\ Len(raw_buffers) = 2
    /\ LastBuffer = <<"%", "2", " ", "%", "4", " ", "{">>
    /\ outcome = "DuplicateNumberType"
    /\ Len(statements) = 1

(***************************************************************************)
(* Claims on the errors of one file, under SpecErrors.                     *)
(***************************************************************************)
\* the statements of the source file that fail argument validation
MalformedTexts == {ShortMoveText, LetterMoveText, JumpText}
SourceTexts == SelectSeq(Split(source, "\n"), LAMBDA t : t # <<>>)
MalformedCount == CountIn(SourceTexts, MalformedTexts)

\* the errors the failure of the file reports: parse_statements returns the
\* one error that ended its loop
ReportedErrors == IF outcome \in {"idle", "running", "ok"} THEN <<>> ELSE <<outcome>>

\* C9: a statement that fails argument validation does not stop the later
\* statements from being parsed: a file with k such statements reports all k.
C9_AllMalformedReported ==
    Finished => Len(ReportedErrors) = MalformedCount

(***************************************************************************)
(* Claims on the buffer extractor, under SpecLex.                          *)
(***************************************************************************)
\* the position k of buffer b lies after an odd number of quote characters
InsideQuotes(b, k) == CountIn(SubSeq(b, 1, k - 1), {"'"}) % 2 = 1

\* the position of the first quote character after the first character
SecondQuote(s) ==
    CHOOSE k \in 2..Len(s) : s[k] = "'" /\ \A j \in 2..(k - 1) : s[j] # "'"

\* C5: a separator between an opening and a closing single quote never ends
\* a buffer: a buffer ends inside quotes only where the stream ends, and a
\* quoted span at the start of the input lies whole in the first buffer.
C5_QuotedSeparatorKept ==
    /\ \A i \in 1..Len(raw_buffers) :
          LET b == raw_buffers[i]
          IN (b # <<>> /\ b[Len(b)] \in Separators /\ InsideQuotes(b, Len(b)))
                => (i = Len(raw_buffers) /\ contents = <<>>)
    /\ (/\ raw_buffers # <<>>
        /\ source[1] = "'"
        /\ \E k \in 2..Len(source) : source[k] = "'"
        /\ \A j \in 1..Len(source) : source[j] # "#")
          => LET k == SecondQuote(source)
             IN /\ Len(raw_buffers[1]) >= k
                /\ SubSeq(raw_buffers[1], 1, k) = SubSeq(source, 1, k)

\* the input ';' between quotes, then ';': one buffer, not two
C5_Witness ==
    /\ source = <<"'", ";", "'", ";">>
    /\ raw_buffers = <<source>>
    /\ contents = <<>>

\* C6: a '#' outside quotes starts a comment whose characters reach no buffer;
\* a '#' inside a quoted span starts none: it stays in the buffer.
C6_CommentUnlessQuoted ==
    /\ (\A j \in 1..Len(source) : source[j] # "'")
          => \A i \in 1..Len(raw_buffers) :
                \A k \in 1..Len(raw_buffers[i]) : raw_buffers[i][k] # "#"
    /\ (raw_buffers # <<>> /\ Len(source) >= 2 /\ source[1] = "'" /\ source[2] = "#")
          => (Len(raw_buffers[1]) >= 2 /\ raw_buffers[1][2] = "#")

(***************************************************************************)
(* The batch driver (main.rs) and the error aggregator.                    *)
(***************************************************************************)
DISPA_EXTENSION == <<"d", "s", "p", "a">>
MINECRAFT_EXTENSION == <<"m", "c", "f", "u", "n", "c", "t", "i", "o", "n">>

\* config.rs CONFIG_DEFAULTS
Config ==
    [source_folder |-> <<".", "/", "s", "r", "c">>,
     target_folder |-> <<".", "/", "o", "b", "j", "e", "c", "t", "s">>,
     tick_function |-> <<".", "/", "t", "i", "c", "k", ".", "m", "c", "f", "u", "n", "c", "t", "i", "o", "n">>,
     namespace |-> <<"d", "e">>]

\* usize as Display: the decimal digits
RECURSIVE ToDigits(_)
ToDigits(n) ==
    IF n < 10 THEN <<Digits[n + 1]>>
    ELSE ToDigits(n \div 10) \o <<Digits[(n % 10) + 1]>>

\* the fold of collect_errors: "{index}: {err}\n" for each Err element, where
\* index counts every element of the input from 0
RECURSIVE error_fold(_, _)
error_fold(input, index) ==
    IF input = <<>> THEN <<>>
    ELSE (IF Head(input).ok THEN <<>>
          ELSE ToDigits(index) \o <<":", " ">> \o Head(input).kind \o <<"\n">>)
         \o error_fold(Tail(input), index + 1)

\* input.into_iter().filter_map(Result::ok).collect()
RECURSIVE ok_values(_)
ok_values(input) ==
    IF input = <<>> THEN <<>>
    ELSE (IF Head(input).ok THEN <<Head(input).value>> ELSE <<>>) \o ok_values(Tail(input))

\* the first Err element of the input alone, as the ? operator returns it
RECURSIVE first_error(_, _)
first_error(input, index) ==
    IF input = <<>> THEN <<>>
    ELSE IF Head(input).ok THEN first_error(Tail(input), index + 1)
    ELSE ToDigits(index) \o <<":", " ">> \o Head(input).kind \o <<"\n">>

\* collect_errors that stops at the first Err
collect_errors_first(input) ==
    IF first_error(input, 0) # <<>> THEN Err(first_error(input, 0))
    ELSE Ok(ok_values(input))

\* collect_errors; the Err carries the text of GenericError::Collection
collect_errors(input) ==
    IF error_fold(input, 0) # <<>> THEN Err(error_fold(input, 0))
    ELSE Ok(ok_values(input))

\* compiled.rs CompiledFile
CompiledFile(path, object_name, animation_name, file_contents) ==
    [path |-> path, object_name |-> object_name,
     animation_name |-> animation_name, contents |-> file_contents]

\* compiled::tick_function_line: execute if score $object-animation flags
\* matches 1.. run function namespace:path
tick_function_line(object_name, animation_name, namespace, path) ==
    [holder |-> <<object_name, animation_name>>, flags_from |-> 1,
     namespace |-> namespace, path |-> path]

\* main: the path of the output file of a compiled file
target_path(path) ==
    Replace(Replace(path, Config.source_folder, Config.target_folder),
            DISPA_EXTENSION, MINECRAFT_EXTENSION)

\* str::strip_prefix(..).unwrap_or(default)
strip_prefix_or(s, prefix, default) ==
    IF StartsWith(s, prefix) THEN SubSeq(s, Len(prefix) + 1, Len(s)) ELSE default

\* main: the path as the tick function names it
filtered_path(path) ==
    Replace(strip_prefix_or(Replace(path, <<"\\">>, <<"/">>), <<".", "/">>, path),
            <<".">> \o MINECRAFT_EXTENSION, <<>>)

\* fs::write(path, contents) on the output folder
fs_write(files, path, file_contents) ==
    [p \in (DOMAIN files) \cup {path} |-> IF p = path THEN file_contents ELSE files[p]]

\* main line 64: the tick function file is truncated
MainTruncate ==
    /\ main_pc = "start"
    /\ tick_function' = <<>>
    /\ main_pc' = "collect"
    /\ UNCHANGED <<results, collected, pending, outputs, main_result>>
    /\ UNCHANGED <<lexVars, parseVars, tickVars, readerVars, tokenVars>>

\* the end of main line 65 on the result of collect_errors
after_collect(r) ==
    /\ collected' = r
    /\ IF r.ok
       THEN /\ pending' = r.value
            /\ main_pc' = "loop"
            /\ main_result' = main_result
       ELSE /\ pending' = <<>>
            /\ main_pc' = "done"
            /\ main_result' = Err(r.kind)

\* main line 65: collect_errors(results)?
MainCollect ==
    /\ main_pc = "collect"
    /\ after_collect(collect_errors(results))
    /\ UNCHANGED <<results, tick_function, outputs>>
    /\ UNCHANGED <<lexVars, parseVars, tickVars, readerVars, tokenVars>>

\* main lines 66-89: one turn of the for loop on the compiled file result
write_result(result, path) ==
    /\ outputs' = fs_write(outputs, path, result.contents)
    /\ tick_function' =
          Append(tick_function,
                 tick_function_line(result.object_name, result.animation_name,
                                    Config.namespace, filtered_path(path)))

MainWrite ==
    /\ main_pc = "loop"
    /\ pending # <<>>
    /\ write_result(Head(pending), target_path(Head(pending).path))
    /\ pending' = Tail(pending)
    /\ UNCHANGED <<results, collected, main_pc, main_result>>
    /\ UNCHANGED <<lexVars, parseVars, tickVars, readerVars, tokenVars>>

\* main lines 92-95: the loop is over, main returns Ok
MainFinish ==
    /\ main_pc = "loop"
    /\ pending = <<>>
    /\ main_pc' = "done"
    /\ main_result' = Ok(<<>>)
    /\ UNCHANGED <<results, collected, pending, tick_function, outputs>>
    /\ UNCHANGED <<lexVars, parseVars, tickVars, readerVars, tokenVars>>

\* the source files of a batch, and what parse_file returns for each
FileNames == <<"a", "b", "c", "d">>
SourcePath(k) == Config.source_folder \o <<"/", FileNames[k], ".">> \o DISPA_EXTENSION
FileCompiled(k) ==
    Ok(CompiledFile(SourcePath(k), <<FileNames[k]>>, <<FileNames[k]>>, <<"#", FileNames[k]>>))
FileErrors == {<<"e", "m", "p", "t", "y">>, <<"b", "r", "a", "c", "k", "e", "t", "s">>}
ResultsOf(k) == {FileCompiled(k)} \cup {Err(e) : e \in FileErrors}

\* a line left in the tick function file by an earlier run
StaleLine == tick_function_line(<<"o">>, <<"o">>, Config.namespace, <<"o">>)

InitMain ==
    /\ IdleLex /\ IdleParse /\ IdleTick /\ IdleReader /\ IdleToken
    /\ \E n \in 1..MaxFiles : results \in {r \in [1..n -> UNION {ResultsOf(k) : k \in 1..n}] :
                                            \A k \in 1..n : r[k] \in ResultsOf(k)}
    /\ collected = <<>>
    /\ pending = <<>>
    /\ main_pc = "start"
    /\ tick_function \in {<<>>, <<StaleLine>>}
    /\ outputs = <<>>
    /\ main_result = "none"

NextMain == MainTruncate \/ MainCollect \/ MainWrite \/ MainFinish
SpecMain == InitMain /\ [][NextMain]_vars

(***************************************************************************)
(* Claims on the error aggregator and the batch, under SpecMain.           *)
(***************************************************************************)
ErrIndices == {i \in 1..Len(results) : ~results[i].ok}
OkIndices == {i \in 1..Len(results) : results[i].ok}
NthOf(indices, j) == CHOOSE i \in indices : Cardinality({k \in indices : k < i}) = j - 1
Collected == main_pc \in {"loop", "done"}
ErrorEntries == Split(collected.kind, "\n")

\* C7: collect_errors on a sequence with an Err returns one Collection error
\* with exactly one entry per Err element, giving its index in the input and
\* its message, in input order; with no Err it returns every Ok value in
\* input order.
C7_CollectErrors ==
    Collected =>
        IF ErrIndices # {}
        THEN /\ ~collected.ok
             /\ Len(ErrorEntries) = Cardinality(ErrIndices) + 1
             /\ ErrorEntries[Len(ErrorEntries)] = <<>>
             /\ \A j \in 1..Cardinality(ErrIndices) :
                   ErrorEntries[j] =
                      ToDigits(NthOf(ErrIndices, j) - 1) \o <<":", " ">>
                         \o results[NthOf(ErrIndices, j)].kind
        ELSE /\ collected.ok
             /\ Len(collected.value) = Len(results)
             /\ \A i \in 1..Len(results) : collected.value[i] = results[i].value

\* two failures around a success were collected
C7_Witness ==
    /\ Collected
    /\ Len(results) = 3
    /\ ErrIndices = {1, 3}
    /\ results[1].kind # results[3].kind
    /\ Len(ErrorEntries) = 3

\* the output of the i-th file was written and its trigger line appended
Emitted(i) ==
    LET file == results[i].value
        path == target_path(file.path)
    IN /\ path \in DOMAIN outputs
       /\ outputs[path] = file.contents
       /\ \E k \in 1..Len(tick_function) :
             tick_function[k] = tick_function_line(file.object_name, file.animation_name,
                                                   Config.namespace, filtered_path(path))

\* C8: in a batch where at least one file fails, every file that compiled
\* still has its output written and its trigger line in the tick function.
C8_SucceededFilesEmitted ==
    (main_pc = "done" /\ ErrIndices # {}) => \A i \in OkIndices : Emitted(i)

(***************************************************************************)
(* The code generator (compiled.rs). A generated line is a record of what  *)
(* the command does when the engine runs it.                               *)
(***************************************************************************)
\* the scoreboard holder "${object_name}-{animation_name}"
Holder(object_name, animation_name) == <<object_name, animation_name>>

\* compiled::disclaimer
disclaimer == [op |-> "comment"]

\* an empty line of the generated file
BlankLine == [op |-> "blank"]

\* compiled::transformation: as the entities tagged object and entity, if the
\* timer matches delay exactly, merge the transformation over duration ticks
transformation(object_name, animation_name, entity_name, delay, duration, compiled) ==
    [op |-> "merge", holder |-> Holder(object_name, animation_name),
     entity |-> entity_name, timer_is |-> delay, start_interpolation |-> 0,
     interpolation_duration |-> duration, transformation |-> compiled]

\* compiled::spawn: as the entities tagged object and source, at their place,
\* if the timer matches delay exactly, summon an entity tagged object and new
spawn(object_name, animation_name, delay, entity_type, new_entity_name, source_entity_name) ==
    [op |-> "summon", holder |-> Holder(object_name, animation_name),
     entity |-> source_entity_name, timer_is |-> delay, entity_type |-> entity_type,
     tags |-> <<object_name, new_entity_name>>]

\* compiled::item, compiled::block, compiled::text: as the entities tagged
\* object and entity, if the timer matches delay exactly, replace the item,
\* merge the block state, merge the text
item(object_name, animation_name, entity_name, delay, item_definition) ==
    [op |-> "item", holder |-> Holder(object_name, animation_name),
     entity |-> entity_name, timer_is |-> delay, item |-> item_definition]
block(object_name, animation_name, entity_name, delay, block_state) ==
    [op |-> "block", holder |-> Holder(object_name, animation_name),
     entity |-> entity_name, timer_is |-> delay, block_state |-> block_state]
text(object_name, animation_name, entity_name, delay, text_string) ==
    [op |-> "text", holder |-> Holder(object_name, animation_name),
     entity |-> entity_name, timer_is |-> delay, text |-> text_string]

\* Translation::compile, Scale::compile: the field and its three values;
\* Rotation::compile: the field and the quaternion of the angles in the order
\* pitch, yaw, roll (the quaternion itself is left uncomputed)
Translation_compile(t) == [field |-> "translation", values |-> <<t.x, t.y, t.z>>]
Scale_compile(t) == [field |-> "scale", values |-> <<t.x, t.y, t.z>>]
Rotation_compile(t) == [field |-> "left_rotation", euler_angles |-> <<t.y, t.x, t.z>>]

\* a guarded "scoreboard players set": if the timer matches from.., set score
SetLine(object_name, animation_name, from, score, value) ==
    [op |-> "set", holder |-> Holder(object_name, animation_name),
     timer_from |-> from, score |-> score, value |-> value]

\* reset with the timer line before the flags line
reset_timer_first(object_name, animation_name, delay) ==
    <<BlankLine,
      SetLine(object_name, animation_name, delay, "timer", -1),
      SetLine(object_name, animation_name, delay, "flags", 0),
      BlankLine>>

\* compiled::reset: an empty line, the flags line, the timer line, and the
\* empty rest after the last line break
reset(object_name, animation_name, delay) ==
    <<BlankLine,
      SetLine(object_name, animation_name, delay, "flags", 0),
      SetLine(object_name, animation_name, delay, "timer", -1),
      BlankLine>>

\* increment that adds nothing
increment_nothing(object_name, animation_name) ==
    [op |-> "add", holder |-> Holder(object_name, animation_name),
     score |-> "timer", value |-> 0]

\* compiled::increment: scoreboard players add holder timer 1
increment(object_name, animation_name) ==
    [op |-> "add", holder |-> Holder(object_name, animation_name),
     score |-> "timer", value |-> 1]

(***************************************************************************)
(* The u32 of the delay (compiled.rs:16, 27). A u32 is held as its two     *)
(* 16-bit halves, the number being hi * 2^16 + lo, so that every value up  *)
(* to u32::MAX = 4294967295 can be written and added. The repository       *)
(* fixes no build profile: a build with overflow checks (the dev profile)  *)
(* panics when a sum passes u32::MAX, a build without them (the release    *)
(* profile) keeps the sum modulo 2^32.                                     *)
(***************************************************************************)
\* the u32 of a number below 2^31
U32(n) == [hi |-> n \div 65536, lo |-> n % 65536]

\* u32::MAX
U32_MAX == [hi |-> 65535, lo |-> 65535]

\* a + b passes u32::MAX: the high halves and the carry of the low halves
\* reach 2^16
add_overflows(a, b) == a.hi + b.hi + (a.lo + b.lo) \div 65536 >= 65536

\* u32::wrapping_add: a + b modulo 2^32
wrapping_add(a, b) ==
    [hi |-> (a.hi + b.hi + (a.lo + b.lo) \div 65536) % 65536,
     lo |-> (a.lo + b.lo) % 65536]

\* what a computation came to: the value it returned, or the panic that
\* unwound it
Returned(value) == [panic |-> FALSE, value |-> value]
Panicked(message) == [panic |-> TRUE, value |-> message]

\* `delay += duration` on u32 (compiled.rs:27): the delay it leaves; with
\* overflow checks it panics if the sum passes u32::MAX, without them the
\* sum wraps
add_assign(delay, duration) ==
    IF overflow_checks /\ add_overflows(delay, duration)
    THEN Panicked("attempt to add with overflow")
    ELSE Returned(wrapping_add(delay, duration))

\* the statements of compiled::program's input; the duration of a Wait is a
\* u32 in halves
Wait(duration) == [type |-> "Wait", duration |-> duration]
Translate(entity, translation, duration) ==
    [type |-> "Translate", entity |-> entity, translation |-> translation,
     duration |-> duration]
EmptyStatement == [type |-> "Empty"]
ObjectName(object, animation) ==
    [type |-> "ObjectName", object |-> object, animation |-> animation]
Rotate(entity, rotation, duration) ==
    [type |-> "Rotate", entity |-> entity, rotation |-> rotation, duration |-> duration]
Scale(entity, scale, duration) ==
    [type |-> "Scale", entity |-> entity, scale |-> scale, duration |-> duration]
Spawn(source_entity, entity_type, new) ==
    [type |-> "Spawn", source |-> source_entity, entity_type |-> entity_type, new |-> new]
Item(entity, item_definition) ==
    [type |-> "Item", entity |-> entity, item |-> item_definition]
Block(entity, block_state) ==
    [type |-> "Block", entity |-> entity, block_state |-> block_state]
Text(entity, text_string) == [type |-> "Text", entity |-> entity, text |-> text_string]

\* one arm of the match of compiled::program: the line of an emitting
\* statement, under the names and the delay current when it is reached
statement_line(statement, object_name, animation_name, delay) ==
    IF statement.type = "Translate"
    THEN transformation(object_name, animation_name, statement.entity, delay,
                        statement.duration, Translation_compile(statement.translation))
    ELSE IF statement.type = "Rotate"
    THEN transformation(object_name, animation_name, statement.entity, delay,
                        statement.duration, Rotation_compile(statement.rotation))
    ELSE IF statement.type = "Scale"
    THEN transformation(object_name, animation_name, statement.entity, delay,
                        statement.duration, Scale_compile(statement.scale))
    ELSE IF statement.type = "Spawn"
    THEN spawn(object_name, animation_name, delay, statement.entity_type,
               statement.new, statement.source)
    ELSE IF statement.type = "Item"
    THEN item(object_name, animation_name, statement.entity, delay, statement.item)
    ELSE IF statement.type = "Block"
    THEN block(object_name, animation_name, statement.entity, delay, statement.block_state)
    ELSE text(object_name, animation_name, statement.entity, delay, statement.text)

\* the line of a statement before the lines of the statements after it; a
\* panic among those unwinds past it
line_then(line, rest) ==
    IF rest.panic THEN rest ELSE Returned(<<line>> \o rest.value)

\* line_then with the line behind the lines of the statements after it
line_after(line, rest) ==
    IF rest.panic THEN rest ELSE Returned(rest.value \o <<line>>)

\* program_lines with the line of a later statement before that of an earlier
RECURSIVE program_lines_last_first(_, _, _, _)
program_lines_last_first(stmts, object_name, animation_name, delay) ==
    IF stmts = <<>> THEN Returned(<<>>)
    ELSE LET statement == Head(stmts)
             added == add_assign(delay, statement.duration)
         IN IF statement.type = "ObjectName"
            THEN program_lines_last_first(Tail(stmts), statement.object,
                                          statement.animation, delay)
            ELSE IF statement.type = "Wait"
            THEN IF added.panic THEN added
                 ELSE program_lines_last_first(Tail(stmts), object_name, animation_name,
                                               added.value)
            ELSE IF statement.type = "Empty"
            THEN program_lines_last_first(Tail(stmts), object_name, animation_name, delay)
            ELSE line_after(statement_line(statement, object_name, animation_name, delay),
                            program_lines_last_first(Tail(stmts), object_name,
                                                     animation_name, delay))

\* the filter_map of compiled::program: the lines of the statements, each
\* under the names set by the ObjectName statements and the delay accumulated
\* in u32 by the Wait statements before it; the panic of an addition ends it
RECURSIVE program_lines(_, _, _, _)
program_lines(stmts, object_name, animation_name, delay) ==
    IF stmts = <<>> THEN Returned(<<>>)
    ELSE LET statement == Head(stmts)
             added == add_assign(delay, statement.duration)
         IN IF statement.type = "ObjectName"
            THEN program_lines(Tail(stmts), statement.object, statement.animation, delay)
            ELSE IF statement.type = "Wait"
            THEN IF added.panic THEN added
                 ELSE program_lines(Tail(stmts), object_name, animation_name, added.value)
            ELSE IF statement.type = "Empty"
            THEN program_lines(Tail(stmts), object_name, animation_name, delay)
            ELSE line_then(statement_line(statement, object_name, animation_name, delay),
                           program_lines(Tail(stmts), object_name, animation_name, delay))

\* the delay of compiled::program after the last statement, from the delay
\* before the first: each Wait adds its duration in u32
RECURSIVE total_delay(_, _)
total_delay(stmts, delay) ==
    IF stmts = <<>> THEN Returned(delay)
    ELSE LET added == add_assign(delay, Head(stmts).duration)
         IN IF Head(stmts).type = "Wait"
            THEN IF added.panic THEN added ELSE total_delay(Tail(stmts), added.value)
            ELSE total_delay(Tail(stmts), delay)

\* object_name and animation_name of compiled::program after the last
\* statement: those of the last ObjectName statement, else the file name
RECURSIVE final_names(_, _)
final_names(stmts, names) ==
    IF stmts = <<>> THEN names
    ELSE IF Head(stmts).type = "ObjectName"
    THEN final_names(Tail(stmts), <<Head(stmts).object, Head(stmts).animation>>)
    ELSE final_names(Tail(stmts), names)

\* Itertools::join("\n") as lines: joining nothing gives one empty line
joined(lines) == IF lines = <<>> THEN <<BlankLine>> ELSE lines

\* the CompiledFile built from the statements' lines and the delay they
\* left (compiled.rs:101-112); nothing is built if the iteration panicked
compiled_file(names, file_path, lines, delay) ==
    IF lines.panic THEN lines
    ELSE IF delay.panic THEN delay
    ELSE Returned(CompiledFile(file_path, names[1], names[2],
                               <<disclaimer>>
                                  \o joined(lines.value)
                                  \o reset(names[1], names[2], delay.value)
                                  \o <<increment(names[1], names[2])>>))

\* the CompiledFile of compiled::program, names being the final names; the
\* delay starts at 0
program_file(stmts, names, file_name, file_path) ==
    compiled_file(names, file_path,
                  program_lines(stmts, file_name, file_name, U32(0)),
                  total_delay(stmts, U32(0)))

\* compiled::program: the disclaimer, the statements' lines, the reset at the
\* accumulated delay, the increment; or the panic of `delay += duration`
program(stmts, file_name, file_path) ==
    program_file(stmts, final_names(stmts, <<file_name, file_name>>), file_name, file_path)

(***************************************************************************)
(* The game engine: each tick it runs the tick function, whose line for    *)
(* the pair dispatches the generated function while flags matches 1..; a   *)
(* function runs line by line, to its end, within the tick.                *)
(***************************************************************************)
\* `if score ... matches from..`: a score is a 32-bit signed integer, which
\* a bound above 2147483647 never reaches
matches_from(score, from) ==
    from.hi < 32768 /\ score >= from.hi * 65536 + from.lo

\* the engine runs one line on the scores of the pair
run_line(line) ==
    IF line.op = "set" /\ matches_from(timer, line.timer_from)
    THEN /\ timer' = (IF line.score = "timer" THEN line.value ELSE timer)
         /\ flags' = (IF line.score = "flags" THEN line.value ELSE flags)
    ELSE IF line.op = "add"
    THEN /\ timer' = timer + line.value
         /\ flags' = flags
    ELSE /\ timer' = timer
         /\ flags' = flags

\* tick_function_line at a tick: the function is invoked if flags matches
\* 1..; a program that panicked left no function and no line to invoke it;
\* the ticks are followed up to the timer MaxTimer
Dispatch ==
    /\ pc = 0
    /\ flags >= 1
    /\ function # <<>>
    /\ timer < MaxTimer
    /\ pc' = 1
    /\ timer_at_dispatch' = timer
    /\ UNCHANGED <<program_statements, function, timer, flags, overflow_checks>>
    /\ UNCHANGED <<lexVars, parseVars, mainVars, readerVars, tokenVars>>

\* the invoked function runs its next line
ExecLine ==
    /\ pc >= 1
    /\ run_line(function[pc])
    /\ pc' = (IF pc = Len(function) THEN 0 ELSE pc + 1)
    /\ UNCHANGED <<program_statements, function, timer_at_dispatch, overflow_checks>>
    /\ UNCHANGED <<lexVars, parseVars, mainVars, readerVars, tokenVars>>

\* between two ticks, the animation is started from outside
RaiseFlags ==
    /\ pc = 0
    /\ flags = 0
    /\ flags' = 1
    /\ UNCHANGED <<program_statements, function, timer, timer_at_dispatch, pc,
                   overflow_checks>>
    /\ UNCHANGED <<lexVars, parseVars, mainVars, readerVars, tokenVars>>

ProgramMenu ==
    {Wait(U32(1)), Wait(U32(2)), Wait(U32_MAX), EmptyStatement, ObjectName(<<"o">>, <<"n">>),
     Translate(<<"e">>, Vec3(F32(1), F32(0), F32(0)), 3), Rotate(<<"f">>, Vec3(F32(0), F32(90), F32(0)), 2),
     Scale(<<"e">>, Vec3(F32(2), F32(2), F32(2)), 1), Spawn(<<"e">>, "block_display", <<"g">>),
     Item(<<"e">>, "stone"), Block(<<"f">>, "lit=true"), Text(<<"g">>, "hello")}

\* the lines of the function a run of compiled::program leaves: those of
\* the CompiledFile, none if it panicked
generated_function(file) == IF file.panic THEN <<>> ELSE file.value.contents

InitTick ==
    /\ IdleLex /\ IdleParse /\ IdleMain /\ IdleReader /\ IdleToken
    /\ program_statements \in SeqUpTo(ProgramMenu, MaxLines)
    /\ overflow_checks \in BOOLEAN
    /\ function = generated_function(program(program_statements, <<"a">>, SourcePath(1)))
    /\ timer \in {-1, 0}
    /\ timer_at_dispatch = timer
    /\ flags = 0
    /\ pc = 0

NextTick == Dispatch \/ ExecLine \/ RaiseFlags
SpecTick == InitTick /\ [][NextTick]_vars

(***************************************************************************)
(* Claims on the generated function at run time, under SpecTick.           *)
(***************************************************************************)
\* the last line, the increment; the two guard lines before the empty line
IncrementLine == Len(function)
FirstGuardLine == Len(function) - 3
SecondGuardLine == Len(function) - 2
EndDelay == function[FirstGuardLine].timer_from

\* a function was generated: the program did not panic
Generated == function # <<>>

\* the score has reached, has passed the delay of the End; a score, a 32-bit
\* signed integer, stays below a delay of 2^31 or more
ReachedEnd(score) ==
    EndDelay.hi < 32768 /\ score >= EndDelay.hi * 65536 + EndDelay.lo
PassedEnd(score) ==
    EndDelay.hi < 32768 /\ score > EndDelay.hi * 65536 + EndDelay.lo

\* the reset fired in the invocation that now stands at its last line
ResetFired == pc >= 1 /\ pc = IncrementLine /\ flags = 0

\* C10 as stated: when the invocation in which the timer reached the delay
\* finishes, the pair is at flags = 0 and timer = -1.
C10_IdleAfterInvocation ==
    [][(ResetFired /\ pc' = 0) => (flags' = 0 /\ timer' = -1)]_vars

\* C10: at the first tick at which the timer has reached the delay of the
\* End, the first guard line sets flags to 0 and the second sets timer to -1;
\* the increment, the last line of the same invocation, then brings the timer
\* to 0; the invocation ends with flags = 0 and timer = 0, and the function is
\* not dispatched again while flags stays 0.
C10_ResetThenIncrement ==
    /\ []((Generated /\ pc = FirstGuardLine) => ~PassedEnd(timer))
    /\ [][(Generated /\ pc = FirstGuardLine /\ ReachedEnd(timer))
              => (flags' = 0 /\ timer' = timer)]_vars
    /\ [][(Generated /\ pc = FirstGuardLine /\ ~ReachedEnd(timer))
              => (flags' = flags /\ flags >= 1)]_vars
    /\ [][(Generated /\ pc = SecondGuardLine /\ flags = 0)
              => (flags' = 0 /\ timer' = -1)]_vars
    /\ [][(Generated /\ pc = SecondGuardLine /\ flags # 0)
              => (flags' = flags /\ timer' = timer)]_vars
    /\ [][ResetFired => (pc' = 0 /\ flags' = 0 /\ timer' = 0)]_vars
    /\ [][(pc = 0 /\ flags = 0) => pc' = 0]_vars

\* the reset has fired after a wait, and the increment is about to run
C10_Witness ==
    /\ ResetFired
    /\ timer = -1
    /\ EndDelay = U32(3)

\* the invocation runs its last line and ends
InvocationEnds == pc >= 1 /\ pc = IncrementLine /\ pc' = 0

\* C11 as stated: every invocation, the one in which the reset lines fire
\* included, leaves the timer one greater than it was when it started.
C11_TimerAdvancesByOne ==
    [][InvocationEnds => timer' = timer_at_dispatch + 1]_vars

\* C11: an invocation in which the reset lines do not fire leaves the timer
\* exactly one greater than it was when the invocation started; the invocation
\* in which they fire starts with the timer at the delay of the End and leaves
\* it at 0.
C11_TimerAdvancesUnlessReset ==
    [][InvocationEnds =>
          IF flags >= 1
          THEN timer' = timer_at_dispatch + 1 /\ ~ReachedEnd(timer_at_dispatch)
          ELSE timer' = 0 /\ ReachedEnd(timer_at_dispatch)]_vars

\* an invocation without reset has ended: the timer went from 1 to 2
C11_Witness ==
    /\ pc = 0
    /\ flags >= 1
    /\ timer_at_dispatch = 1
    /\ timer = 2

(***************************************************************************)
(* Claims on the generated text, under SpecTick.                           *)
(***************************************************************************)
EmittingTypes == {"Translate", "Rotate", "Scale", "Spawn", "Item", "Block", "Text"}
EmittingOps == {"merge", "summon", "item", "block", "text"}
EmittingStatements ==
    SelectSeq(program_statements, LAMBDA st : st.type \in EmittingTypes)
EmittedLines == SelectSeq(function, LAMBDA line : line.op \in EmittingOps)
IncrementLines == SelectSeq(function, LAMBDA line : line.op = "add")

\* the line is the line of the statement: its command, its entity, its payload
LineOf(line, st) ==
    IF st.type = "Translate"
    THEN /\ line.op = "merge" /\ line.entity = st.entity
         /\ line.transformation.field = "translation"
         /\ line.transformation.values = <<st.translation.x, st.translation.y, st.translation.z>>
    ELSE IF st.type = "Rotate"
    THEN /\ line.op = "merge" /\ line.entity = st.entity
         /\ line.transformation.field = "left_rotation"
    ELSE IF st.type = "Scale"
    THEN /\ line.op = "merge" /\ line.entity = st.entity
         /\ line.transformation.field = "scale"
         /\ line.transformation.values = <<st.scale.x, st.scale.y, st.scale.z>>
    ELSE IF st.type = "Spawn"
    THEN /\ line.op = "summon" /\ line.entity = st.source
         /\ line.entity_type = st.entity_type /\ line.tags[2] = st.new
    ELSE IF st.type = "Item"
    THEN line.op = "item" /\ line.entity = st.entity /\ line.item = st.item
    ELSE IF st.type = "Block"
    THEN line.op = "block" /\ line.entity = st.entity /\ line.block_state = st.block_state
    ELSE line.op = "text" /\ line.entity = st.entity /\ line.text = st.text

\* C12: the generated text holds the lines of the emitting statements in the
\* order of the statements, one line each, no line for an ObjectName, Wait or
\* Empty statement, and exactly one timer-increment line, the last line.
C12_LinesInStatementOrder ==
    Generated =>
    /\ Len(EmittedLines) = Len(EmittingStatements)
    /\ \A j \in 1..Len(EmittedLines) : LineOf(EmittedLines[j], EmittingStatements[j])
    /\ \A j \in 1..Len(EmittedLines) : function[j + 1] = EmittedLines[j]
    /\ Len(function) =
          (IF EmittingStatements = <<>> THEN 1 ELSE Len(EmittingStatements)) + 6
    /\ Len(IncrementLines) = 1
    /\ function[Len(function)] = IncrementLines[1]
    /\ IncrementLines[1].score = "timer" /\ IncrementLines[1].value = 1

\* a text statement, then a translate statement: two lines in that order
C12_Witness ==
    /\ Len(program_statements) = 2
    /\ program_statements[1].type = "Text"
    /\ program_statements[2].type = "Translate"
    /\ function[2].op = "text"
    /\ function[3].op = "merge"

(***************************************************************************)
(* The reader that main calls (file_reader.rs): numbers are written with a *)
(* suffix, 10_t for a delay and 20_d for a duration. An error is an Err    *)
(* whose kind is the one-element sequence of its message.                  *)
(***************************************************************************)
Bail(message) == Err(<<message>>)

\* Regex "#.*?\n" replace_all with "": a '#' with a line break after it is
\* removed up to and with the line break; without one nothing matches
RECURSIVE remove_comments(_)
remove_comments(s) ==
    IF s = <<>> THEN <<>>
    ELSE IF Head(s) = "#"
    THEN IF SplitOnce(s, "\n").some THEN remove_comments(SplitOnce(s, "\n").after) ELSE s
    ELSE <<Head(s)>> \o remove_comments(Tail(s))

\* str::split_inclusive(chars): every piece ends with its delimiter, except a
\* non-empty rest
RECURSIVE SplitInclusiveAcc(_, _, _)
SplitInclusiveAcc(s, chars, piece) ==
    IF s = <<>> THEN (IF piece = <<>> THEN <<>> ELSE <<piece>>)
    ELSE IF Head(s) \in chars
    THEN <<Append(piece, Head(s))>> \o SplitInclusiveAcc(Tail(s), chars, <<>>)
    ELSE SplitInclusiveAcc(Tail(s), chars, Append(piece, Head(s)))
SplitInclusive(s, chars) == SplitInclusiveAcc(s, chars, <<>>)

\* parse_file: the trimmed, non-empty statements of the filtered code
raw_statements(filtered_code) ==
    LET pieces == Split(filtered_code, ";")
        split == Concat([i \in 1..Len(pieces) |-> SplitInclusive(pieces[i], {"{", "}"})])
        trimmed == [i \in 1..Len(split) |-> Trim(split[i])]
    IN SelectSeq(trimmed, LAMBDA st : st # <<>>)

\* file_reader's <NumberType as TryFrom<char>>::try_from
file_reader_NumberType_try_from(value) ==
    IF value = "t" THEN Ok("Delay")
    ELSE IF value = "d" THEN Ok("Duration")
    ELSE Bail("Char does not correspond to a NumberType.")

\* file_reader's <Number as TryFrom<&str>>::try_from
Number_try_from(value) ==
    LET split == SplitOnce(value, "_")
    IN IF ~split.some THEN Bail("Number did not contain type discriminator: No underscore.")
       ELSE IF split.after = <<>>
            THEN Bail("Number did not contain type discriminator: No discriminator.")
       ELSE LET number_type == file_reader_NumberType_try_from(split.after[1])
                parsed == ParseU32(split.before)
            IN IF ~number_type.ok THEN number_type
               ELSE IF ~parsed.ok THEN Bail("invalid digit found in string")
               ELSE Ok([number_type |-> number_type.value, value |-> parsed.value])

\* the fold of parse_block_definition over the numbers
RECURSIVE block_fold(_, _)
block_fold(numbers, acc) ==
    IF numbers = <<>> THEN acc
    ELSE block_fold(Tail(numbers),
                    IF Head(numbers).number_type = "Delay"
                    THEN [delay |-> Head(numbers).value, duration |-> acc.duration]
                    ELSE [delay |-> acc.delay, duration |-> Head(numbers).value])

\* parse_block_definition, from the collected numbers on
block_of_numbers(numbers, previous_block) ==
    IF ~numbers.ok THEN numbers
    ELSE IF Len(numbers.value) > 2 THEN Bail("Too many numbers in block definition")
    ELSE IF numbers.value = <<>> THEN Bail("Block definition is empty.")
    ELSE IF Len(numbers.value) = 2
            /\ numbers.value[2].number_type = numbers.value[1].number_type
         THEN Bail("Block definition contains two numbers of the same type.")
    ELSE Ok(block_fold(numbers.value, previous_block))

\* parse_block_definition
parse_block_definition(definition, previous_block) ==
    LET words == SelectSeq(Split(definition, " "), LAMBDA w : w # <<"{">>)
    IN block_of_numbers(collect_errors([i \in 1..Len(words) |-> Number_try_from(words[i])]),
                        previous_block)

\* KEYWORDS, in the order get_keyword tries them
KEYWORDS ==
    <<<<"m", "o", "v", "e">>, <<"t", "r", "a", "n", "s", "l", "a", "t", "e">>, <<"m">>, <<"t", "u", "r", "n">>, <<"r", "o", "t", "a", "t", "e">>, <<"r">>, <<"s", "i", "z", "e">>, <<"s", "c", "a", "l", "e">>, <<"s">>, <<"e", "n", "d">>>>

\* get_keyword: the first keyword of KEYWORDS that the input contains
get_keyword(input) ==
    IF \E k \in 1..Len(KEYWORDS) : Contains(input, KEYWORDS[k])
    THEN [some |-> TRUE,
          value |-> KEYWORDS[CHOOSE k \in 1..Len(KEYWORDS) :
                                /\ Contains(input, KEYWORDS[k])
                                /\ \A j \in 1..(k - 1) : ~Contains(input, KEYWORDS[j])]]
    ELSE [some |-> FALSE, value |-> <<>>]

\* str::split_inclusive(keyword).next(): the text up to and with the first
\* occurrence of the keyword
statement_start(statement, keyword) ==
    LET i == CHOOSE k \in 1..Len(statement) :
                 /\ StartsWith(SubSeq(statement, k, Len(statement)), keyword)
                 /\ \A j \in 1..(k - 1) :
                       ~StartsWith(SubSeq(statement, j, Len(statement)), keyword)
    IN SubSeq(statement, 1, i + Len(keyword) - 1)

\* collapse_blocks: the numbers of the current block put before a statement
\* that does not give them
with_block_numbers(statement, start, current_block) ==
    LET with_duration ==
            IF ~Contains(start, <<"_", "d">>)
            THEN ToDigits(current_block.duration) \o <<"_", "d", " ">> \o statement
            ELSE statement
    IN IF ~Contains(start, <<"_", "t">>)
       THEN ToDigits(current_block.delay) \o <<"_", "t", " ">> \o with_duration
       ELSE with_duration

\* the closure of collapse_blocks on one statement: the blocks after it and
\* the Result it maps to (an opened or closed block maps to the empty string)
collapse_statement(statement, blocks) ==
    IF Contains(statement, <<"{">>)
    THEN LET parsed == parse_block_definition(statement, blocks[Len(blocks)])
         IN IF parsed.ok
            THEN [blocks |-> Append(blocks, parsed.value), result |-> Ok(<<>>)]
            ELSE [blocks |-> blocks, result |-> parsed]
    ELSE IF statement = <<"}">>
    THEN IF Len(blocks) > 1
         THEN [blocks |-> SubSeq(blocks, 1, Len(blocks) - 1), result |-> Ok(<<>>)]
         ELSE [blocks |-> blocks,
               result |-> Bail("Unbalanced brackets: Too many closing brackets.")]
    ELSE IF ~get_keyword(statement).some
    THEN [blocks |-> blocks, result |-> Bail("Statement doesn't contain a keyword.")]
    ELSE [blocks |-> blocks,
          result |-> Ok(with_block_numbers(
                            statement,
                            statement_start(statement, get_keyword(statement).value),
                            blocks[Len(blocks)]))]

\* the map of collapse_blocks, in order, with the blocks carried along
RECURSIVE collapse_map(_, _)
collapse_map(stmts, blocks) ==
    IF stmts = <<>> THEN <<>>
    ELSE <<collapse_statement(Head(stmts), blocks).result>>
         \o collapse_map(Tail(stmts), collapse_statement(Head(stmts), blocks).blocks)

\* the blocks before any statement
file_reader_Block_default == [delay |-> 0, duration |-> 0]

\* collapse_blocks
collapse_blocks(stmts) ==
    collect_errors(SelectSeq(collapse_map(stmts, <<file_reader_Block_default>>),
                             LAMBDA r : ~(r.ok /\ r.value = <<>>)))

\* the name a statement starting with the keyword declares: None, or the
\* Result of split_once(' ')
declared_name(stmts, keyword) ==
    LET found == SelectSeq(stmts, LAMBDA st : StartsWith(st, keyword))
    IN IF found = <<>> THEN [some |-> FALSE, name |-> Ok(<<>>)]
       ELSE [some |-> TRUE,
             name |-> IF SplitOnce(found[1], " ").some
                      THEN Ok(SplitOnce(found[1], " ").after)
                      ELSE Bail("Name specified, but not provided.")]

\* parse_names, from the object name on
names_after_object(stmts, object_name) ==
    LET animation == declared_name(stmts, ANIMATION_STR)
        animation_name == IF animation.some THEN animation.name.value ELSE object_name
    IN IF ~valid_character_is_match(object_name)
       THEN Bail("Object name contains invalid characters.")
       ELSE IF animation.some /\ ~animation.name.ok THEN animation.name
       ELSE IF ~valid_character_is_match(animation_name)
       THEN Bail("Animation name contains invalid characters.")
       ELSE Ok([object_name |-> object_name,
                animation_name |-> animation_name,
                statements |-> SelectSeq(stmts, LAMBDA st :
                                  /\ ~StartsWith(st, OBJECT_STR)
                                  /\ ~StartsWith(st, ANIMATION_STR))])

\* parse_names
parse_names(stmts, file_name) ==
    LET object == declared_name(stmts, OBJECT_STR)
    IN IF object.some /\ ~object.name.ok THEN object.name
       ELSE names_after_object(stmts, IF object.some THEN object.name.value ELSE file_name)

\* extract_name: the last component of the path, without its last extension
extract_name(path) ==
    LET components == Split(Replace(path, <<"\\">>, <<"/">>), "/")
        parts == Split(components[Len(components)], ".")
        kept == SubSeq(parts, 1, Len(parts) - 1)
    IN IF kept = <<>> THEN <<>>
       ELSE Concat([i \in 1..Len(kept) |-> IF i = 1 THEN kept[i] ELSE <<".">> \o kept[i]])

\* order_numbers with the two values exchanged
order_numbers_exchanged(first, second) ==
    IF first.number_type = second.number_type THEN Bail("Statement does not contain both.")
    ELSE Ok([delay |-> IF first.number_type = "Delay" THEN second.value ELSE first.value,
             duration |-> IF first.number_type = "Duration" THEN second.value
                          ELSE first.value])

\* order_numbers
order_numbers(first, second) ==
    IF first.number_type # "Delay" /\ second.number_type # "Delay"
    THEN Bail("Statement does not contain Delay.")
    ELSE IF first.number_type # "Duration" /\ second.number_type # "Duration"
    THEN Bail("Statement does not contain Duration.")
    ELSE Ok([delay |-> IF first.number_type = "Delay" THEN first.value ELSE second.value,
             duration |-> IF first.number_type = "Duration" THEN first.value
                          ELSE second.value])

\* with_context on the result of parse::<f32>()
coordinate_context(r) == IF r.ok THEN r ELSE Bail("Could not parse coordinate.")

\* file_reader's parse_coordinate
parse_coordinate(coordinate, current) ==
    IF StartsWith(coordinate, <<"~">>)
    THEN plus_current(coordinate_context(
                          ParseF32(Replace(Replace(coordinate, <<"~", "-">>, <<"-", "0">>),
                                           <<"~">>, <<"0">>))), current)
    ELSE coordinate_context(ParseF32(coordinate))

\* the keywords the match of compile_statements knows, and their kind
keyword_kind(keyword) ==
    IF keyword \in {<<"m", "o", "v", "e">>, <<"t", "r", "a", "n", "s", "l", "a", "t", "e">>, <<"m">>} THEN "Translate"
    ELSE IF keyword \in {<<"t", "u", "r", "n">>, <<"r", "o", "t", "a", "t", "i", "e">>, <<"r">>} THEN "Rotate"
    ELSE IF keyword \in {<<"s", "i", "z", "e">>, <<"s", "c", "a", "l", "e">>, <<"s">>} THEN "Scale"
    ELSE "none"

\* the compiled text of a transformation of the kind
compile_kind(kind, t) ==
    IF kind = "Translate" THEN Translation_compile(t)
    ELSE IF kind = "Rotate" THEN Rotation_compile(t)
    ELSE Scale_compile(t)

\* entities.get(name), after the insertion of the default for a new name
entities_with(entities, entity_name) ==
    IF entity_name \in DOMAIN entities THEN entities
    ELSE [n \in DOMAIN entities \cup {entity_name} |->
             IF n = entity_name THEN Transformation_default ELSE entities[n]]

\* the closure of compile_statements from the three coordinates on
transformation_compiled(elements, numbers, inserted, object_name, animation_name, kind, x, y, z) ==
    IF kind = "none"
    THEN [entities |-> inserted, result |-> Bail("Statement has an invalid keyword.")]
    ELSE IF ~x.ok THEN [entities |-> inserted, result |-> x]
    ELSE IF ~y.ok THEN [entities |-> inserted, result |-> y]
    ELSE IF ~z.ok THEN [entities |-> inserted, result |-> z]
    ELSE [entities |->
             [inserted EXCEPT ![elements[4]] =
                 transform(kind, Vec3(x.value, y.value, z.value), inserted[elements[4]])],
          result |->
             Ok(<<transformation(object_name, animation_name, elements[4],
                                 numbers.delay, numbers.duration,
                                 compile_kind(kind, Vec3(x.value, y.value, z.value)))>>)]

\* the closure of compile_statements from the entity's current component on
compile_at(elements, numbers, inserted, object_name, animation_name, kind, current) ==
    transformation_compiled(
        elements, numbers, inserted, object_name, animation_name, kind,
        IF Len(elements) >= 5 THEN parse_coordinate(elements[5], current.x)
        ELSE Bail("Statement has too few elements: 4/7"),
        IF Len(elements) >= 6 THEN parse_coordinate(elements[6], current.y)
        ELSE Bail("Statement has too few elements: 5/7"),
        IF Len(elements) >= 7 THEN parse_coordinate(elements[7], current.z)
        ELSE Bail("Statement has too few elements: 6/7"))

\* the closure of compile_statements from the entity map with the entity on
compile_with(elements, numbers, inserted, object_name, animation_name, kind) ==
    compile_at(elements, numbers, inserted, object_name, animation_name, kind,
               component(kind, inserted[elements[4]]))

\* the closure of compile_statements from the entity name on
compile_transformation(elements, numbers, entities, object_name, animation_name) ==
    compile_with(elements, numbers, entities_with(entities, elements[4]), object_name,
                 animation_name, keyword_kind(elements[3]))

\* the closure of compile_statements from the keyword on
compile_keyword(elements, numbers, entities, object_name, animation_name) ==
    IF ~numbers.ok THEN [entities |-> entities, result |-> numbers]
    ELSE IF Len(elements) < 3
    THEN [entities |-> entities, result |-> Bail("Statement has too few elements: 2/7")]
    ELSE IF elements[3] = END_STR
    THEN [entities |-> entities,
          result |-> Ok(reset(object_name, animation_name, numbers.value.delay))]
    ELSE IF Len(elements) < 4
    THEN [entities |-> entities, result |-> Bail("Statement has too few elements: 3/7")]
    ELSE compile_transformation(elements, numbers.value, entities, object_name,
                                animation_name)

\* the closure of compile_statements on one statement: the entities after it
\* and the Result it maps to, the lines of the statement
compile_statement(statement, entities, object_name, animation_name) ==
    LET elements == Split(statement, " ")
        first == Number_try_from(elements[1])
        second == IF Len(elements) >= 2 THEN Number_try_from(elements[2])
                  ELSE Bail("Statement has too few elements: 1/7")
    IN IF ~first.ok THEN [entities |-> entities, result |-> first]
       ELSE IF ~second.ok THEN [entities |-> entities, result |-> second]
       ELSE compile_keyword(elements, order_numbers(first.value, second.value), entities,
                            object_name, animation_name)

\* the map of compile_statements, in order, with the entities carried along
RECURSIVE compile_map(_, _, _, _)
compile_map(stmts, entities, object_name, animation_name) ==
    IF stmts = <<>> THEN <<>>
    ELSE <<compile_statement(Head(stmts), entities, object_name, animation_name).result>>
         \o compile_map(Tail(stmts),
                        compile_statement(Head(stmts), entities, object_name,
                                          animation_name).entities,
                        object_name, animation_name)

\* compile_statements
compile_statements(stmts, object_name, animation_name) ==
    collect_errors(compile_map(stmts, <<>>, object_name, animation_name))

\* a step of parse_file that may return early with the error of r
reader_step(r, next_pc) ==
    IF r.ok
    THEN reader_pc' = next_pc /\ reader_result' = reader_result
    ELSE reader_pc' = "done" /\ reader_result' = r

\* parse_file lines 78-87: the comments are filtered out, the statements split
ReaderSplit ==
    /\ reader_pc = "start"
    /\ reader_raw' = raw_statements(remove_comments(source))
    /\ reader_step(IF reader_raw' = <<>> THEN Bail("File is empty.") ELSE Ok(<<>>), "names")
    /\ UNCHANGED <<reader_named, reader_flat>>
    /\ UNCHANGED <<lexVars, parseVars, mainVars, tickVars, tokenVars>>

\* parse_file line 88: parse_names(statements, file_name)?
names_step(r) == reader_named' = r /\ reader_step(r, "collapse")
ReaderNames ==
    /\ reader_pc = "names"
    /\ names_step(parse_names(reader_raw, extract_name(SourcePath(1))))
    /\ UNCHANGED <<reader_raw, reader_flat>>
    /\ UNCHANGED <<lexVars, parseVars, mainVars, tickVars, tokenVars>>

\* parse_file line 89: collapse_blocks(statements)?
collapse_step(r) == reader_flat' = r /\ reader_step(r, "compile")
ReaderCollapse ==
    /\ reader_pc = "collapse"
    /\ collapse_step(collapse_blocks(reader_named.value.statements))
    /\ UNCHANGED <<reader_raw, reader_named>>
    /\ UNCHANGED <<lexVars, parseVars, mainVars, tickVars, tokenVars>>

\* parse_file lines 90-100: compile_statements(...)?, the increment pushed,
\* the CompiledFile with the disclaimer before the joined lines
compile_step(r, object_name, animation_name) ==
    /\ reader_pc' = "done"
    /\ reader_result' =
          IF r.ok
          THEN Ok(CompiledFile(SourcePath(1), object_name, animation_name,
                               <<disclaimer>> \o Concat(r.value)
                                  \o <<increment(object_name, animation_name)>>))
          ELSE r
ReaderCompile ==
    /\ reader_pc = "compile"
    /\ compile_step(compile_statements(reader_flat.value, reader_named.value.object_name,
                                       reader_named.value.animation_name),
                    reader_named.value.object_name, reader_named.value.animation_name)
    /\ UNCHANGED <<reader_raw, reader_named, reader_flat>>
    /\ UNCHANGED <<lexVars, parseVars, mainVars, tickVars, tokenVars>>

\* source texts in the notation of the reader
ReaderBlockBoth == <<"5", "_", "t", " ", "7", "_", "d", " ", "{">>
ReaderBlockDuration == <<"4", "_", "d", " ", "{">>
ReaderBlockEnd == <<"}">>
ReaderMove == <<"m", " ", "e", " ", "1", " ", "0", " ", "0", ";">>
ReaderDelayedMove == <<"2", "_", "t", " ", "m", " ", "e", " ", "~", "1", " ", "0", " ", "0", ";">>
ReaderTimedTurn == <<"3", "_", "t", " ", "6", "_", "d", " ", "r", " ", "f", " ", "0", " ", "9", " ", "0", ";">>
ReaderObject == <<"o", "b", "j", "e", "c", "t", " ", "t", "e", "s", "t", ";">>
ReaderEnd == <<"8", "_", "t", " ", "e", "n", "d", ";">>
ReaderPrefixedMove == <<"@", "1", "0", " ", "%", "2", "0", " ", "m", "o", "v", "e", " ", "e", " ", "1", " ", "0", " ", "0", ";">>
ReaderPrefixedEnd == <<"@", "1", "0", " ", "e", "n", "d", ";">>
ReaderRotate == <<"r", "o", "t", "a", "t", "e", " ", "f", " ", "0", " ", "9", " ", "0", ";">>
ReaderMenu ==
    {ReaderBlockBoth, ReaderBlockDuration, ReaderBlockEnd, ReaderMove, ReaderDelayedMove,
     ReaderTimedTurn, ReaderObject, ReaderEnd, ReaderPrefixedMove, ReaderPrefixedEnd,
     ReaderRotate}

ReaderStart(code) ==
    /\ source = code /\ contents = <<>> /\ raw_buffers = <<>>
    /\ IdleParse /\ IdleMain /\ IdleTick /\ IdleToken
    /\ reader_pc = "start" /\ reader_raw = <<>> /\ reader_named = <<>>
    /\ reader_flat = <<>> /\ reader_result = <<>>

InitReader == \E texts \in SeqUpTo(ReaderMenu, MaxReaderStatements) : ReaderStart(FileText(texts))
NextReader == ReaderSplit \/ ReaderNames \/ ReaderCollapse \/ ReaderCompile
SpecReader == InitReader /\ [][NextReader]_vars

(***************************************************************************)
(* Claims on the reader and its generated lines, under SpecReader.         *)
(***************************************************************************)
ReaderDone == reader_pc = "done" /\ reader_result # <<>> /\ reader_result.ok
ReaderLines == reader_result.value.contents
ReaderStatements == reader_named.value.statements

\* the words of a statement that are digits followed by _t (or _d)
NumberWords(st, suffix) ==
    SelectSeq(Split(st, " "),
              LAMBDA w : /\ Len(w) >= 3
                         /\ SubSeq(w, Len(w) - 1, Len(w)) = <<"_", suffix>>
                         /\ \A i \in 1..(Len(w) - 2) : IsDigit(w[i]))
OwnValue(st, suffix) ==
    DecimalValue(SubSeq(NumberWords(st, suffix)[1], 1, Len(NumberWords(st, suffix)[1]) - 2), 0)

\* the numbers of a statement or block definition: its own where it gives
\* them, else those of the block around it
ResolvedNumbers(st, around) ==
    [delay |-> IF NumberWords(st, "t") # <<>> THEN OwnValue(st, "t") ELSE around.delay,
     duration |-> IF NumberWords(st, "d") # <<>> THEN OwnValue(st, "d") ELSE around.duration]

IsEndStatement(st) == \E i \in 1..Len(Split(st, " ")) : Split(st, " ")[i] = END_STR

\* the resolved numbers of the transform statements, in order; open is the
\* stack of the blocks open so far
RECURSIVE ResolvedOfTransforms(_, _)
ResolvedOfTransforms(stmts, open) ==
    IF stmts = <<>> THEN <<>>
    ELSE IF Contains(Head(stmts), <<"{">>)
    THEN ResolvedOfTransforms(Tail(stmts),
                              Append(open, ResolvedNumbers(Head(stmts), open[Len(open)])))
    ELSE IF Head(stmts) = <<"}">>
    THEN ResolvedOfTransforms(Tail(stmts), SubSeq(open, 1, Len(open) - 1))
    ELSE IF IsEndStatement(Head(stmts))
    THEN ResolvedOfTransforms(Tail(stmts), open)
    ELSE <<ResolvedNumbers(Head(stmts), open[Len(open)])>>
         \o ResolvedOfTransforms(Tail(stmts), open)

TransformLines == SelectSeq(ReaderLines, LAMBDA line : line.op = "merge")
ExpectedNumbers == ResolvedOfTransforms(ReaderStatements, <<[delay |-> 0, duration |-> 0]>>)

\* C13: the line of every timed transform statement is guarded by the timer
\* matching exactly the statement's resolved delay (its own if it gives one,
\* else that of the enclosing block), and carries start_interpolation 0 and
\* an interpolation_duration equal to the statement's resolved duration.
C13_GuardIsResolvedDelay ==
    ReaderDone =>
        /\ Len(TransformLines) = Len(ExpectedNumbers)
        /\ \A j \in 1..Len(TransformLines) :
              /\ TransformLines[j].timer_is = ExpectedNumbers[j].delay
              /\ TransformLines[j].start_interpolation = 0
              /\ TransformLines[j].interpolation_duration = ExpectedNumbers[j].duration

\* in a block with delay 5 and duration 7: a statement with its own delay 2,
\* then a statement without numbers
C13_Witness ==
    /\ ReaderDone
    /\ reader_raw = <<ReaderBlockBoth, <<"2", "_", "t", " ", "m", " ", "e", " ", "~", "1", " ", "0", " ", "0">>, <<"m", " ", "e", " ", "1", " ", "0", " ", "0">>>>
    /\ Len(TransformLines) = 2
    /\ TransformLines[1].timer_is = 2 /\ TransformLines[1].interpolation_duration = 7
    /\ TransformLines[2].timer_is = 5 /\ TransformLines[2].interpolation_duration = 7

\* the holders of the lines that name one
LinesWithHolder == SelectSeq(ReaderLines, LAMBDA line : line.op \in {"merge", "set", "add"})

\* C14: a file that declares an object name and no animation name compiles
\* with the animation name equal to the object name, so that
\* `object test; @10 %20 move e 1 0 0; @10 end;` compiles to one transform
\* line, two reset lines and one increment line, all on the objective test-test.
C14_AnimationDefaultsToObject ==
    (reader_pc = "done" /\ source = FileText(<<ReaderObject, ReaderPrefixedMove,
                                               ReaderPrefixedEnd>>))
       => /\ reader_result.ok
          /\ reader_result.value.object_name = <<"t", "e", "s", "t">>
          /\ reader_result.value.animation_name = <<"t", "e", "s", "t">>
          /\ Len(SelectSeq(ReaderLines, LAMBDA line : line.op = "merge")) = 1
          /\ Len(SelectSeq(ReaderLines, LAMBDA line : line.op = "set")) = 2
          /\ Len(SelectSeq(ReaderLines, LAMBDA line : line.op = "add")) = 1
          /\ \A j \in 1..Len(LinesWithHolder) :
                LinesWithHolder[j].holder = Holder(<<"t", "e", "s", "t">>, <<"t", "e", "s", "t">>)

(***************************************************************************)
(* Claims on the partial override and the terminator, under SpecNumbers.   *)
(***************************************************************************)
\* the buffer starts with one valid prefixed number and an unprefixed word
OneNumberThenWord(buffer) ==
    LET words == Split(buffer, " ")
    IN /\ Len(words) >= 2
       /\ IsNumberWord(words[1])
       /\ ~has_prefix(words[2])

\* the turn of the loop stored a statement that carries a NumberSet
StoredWithNumbers ==
    /\ Len(statements') = Len(statements) + 1
    /\ statements'[Len(statements')].type \in {"Block", "Keyword"}

\* C15: a statement or block definition that starts with exactly one prefixed
\* number followed by an unprefixed word resolves to the NumberSet on top of
\* the stack with only the field of that number's type replaced by its value.
C15_PartialOverride ==
    [][(StoredWithNumbers /\ OneNumberThenWord(LastBuffer'))
         => LET inherited == block_queue[Len(block_queue)]
                resolved == statements'[Len(statements')].numbers
                word == Split(LastBuffer', " ")[1]
                value == ParseU32(Tail(word)).value
            IN IF word[1] = DELAY_PREFIX
               THEN resolved.delay = value /\ resolved.duration = inherited.duration
               ELSE resolved.duration = value /\ resolved.delay = inherited.delay]_vars

\* inside the block @5 %7 a move with the one number %2 kept the delay 5
C15_Witness ==
    /\ Len(statements) = 2
    /\ LastBuffer = <<"%", "2", " ", "m", " ", "e", " ", "1", " ", "0", " ", "0", ";">>
    /\ statements[2].type = "Keyword"
    /\ statements[2].numbers = NumberSet_new(5, 2)

\* the buffer is a terminator statement: one valid prefixed number, then end;
IsTerminator(buffer) ==
    LET words == Split(buffer, " ")
    IN /\ Len(words) = 2
       /\ IsNumberWord(words[1])
       /\ words[2] = <<"e", "n", "d", ";">>

\* C16: a terminator `<number> end;` yields End(v) with the number's value v
\* if and only if the number is of type Delay; with a Duration number parsing
\* fails with an incorrect-number-type error and no End statement is stored.
C16_EndNeedsDelay ==
    /\ \A i \in 1..Len(raw_buffers) :
          IsTerminator(BufferRead(i))
             => LET word == Split(BufferRead(i), " ")[1]
                IN IF word[1] = DELAY_PREFIX
                   THEN /\ i <= Len(statements)
                        /\ statements[i] = [type |-> "End",
                                            delay |-> ParseU32(Tail(word)).value]
                   ELSE /\ i = Len(raw_buffers)
                        /\ Len(statements) = i - 1
                        /\ outcome = "IncorrectNumberType"
    /\ \A i \in 1..Len(statements) :
          statements[i].type = "End"
             => IsTerminator(BufferRead(i)) /\ BufferRead(i)[1] = DELAY_PREFIX

\* inside a block, `@3 end;` was stored as End(3)
C16_Witness ==
    /\ Len(statements) = 2
    /\ LastBuffer = <<"@", "3", " ", "e", "n", "d", ";">>
    /\ statements[2] = [type |-> "End", delay |-> 3]

\* inside a block, `%4 end;` was refused
C16_WitnessRefused ==
    /\ Len(statements) = 1
    /\ Len(raw_buffers) = 2
    /\ LastBuffer = <<"%", "4", " ", "e", "n", "d", ";">>
    /\ outcome = "IncorrectNumberType"

(***************************************************************************)
(* Claim on the statements of a parsed Program, under SpecBlocks.          *)
(***************************************************************************)
\* the statement types that only mark structure
StructuralMarkers == {"Block", "BlockEnd", "Empty", "EndOfFile"}

\* C17: the statement list of a successfully parsed Program contains no
\* structural marker: no block-start, block-end, empty or end-of-file statement.
C17_NoStructuralMarkers ==
    outcome = "ok" => \A i \in 1..Len(statements) : statements[i].type \notin StructuralMarkers

(***************************************************************************)
(* Files of transform statements with absolute and relative coordinates.   *)
(***************************************************************************)
MaxCoordStatements == 3

AbsoluteMove == <<"m", " ", "e", " ", "1", " ", "2", " ", "3", ";">>
AbsoluteMoveFar == <<"m", " ", "e", " ", "4", " ", "0", " ", "5", ";">>
SameMove == <<"m", " ", "e", " ", "~", "0", " ", "~", "0", " ", "~", "0", ";">>
BareMove == <<"m", " ", "e", " ", "~", " ", "~", " ", "~", ";">>
OffsetMove == <<"m", " ", "e", " ", "~", "1", " ", "~", "-", "2", " ", "~", ";">>
OtherEntityMove == <<"m", " ", "f", " ", "7", " ", "7", " ", "7", ";">>
OtherKindTurn == <<"r", " ", "e", " ", "~", " ", "9", " ", "0", ";">>
TwiceRelativeMove == <<"m", " ", "e", " ", "~", "1", "~", "2", " ", "0", " ", "0", ";">>
SignedRelativeMove == <<"m", " ", "e", " ", "~", "+", "1", " ", "0", " ", "0", ";">>
LetterRelativeMove == <<"m", " ", "e", " ", "~", "x", " ", "0", " ", "0", ";">>
BadNameMove == <<"m", " ", "e", "!", " ", "1", " ", "0", " ", "0", ";">>
SignedZeroMove == <<"m", " ", "e", " ", "-", "0", " ", "1", ".", "5", " ", "n", "a", "n", ";">>
FractionOffsetMove == <<"m", " ", "e", " ", "~", ".", "5", " ", "~", "-", ".", "5", " ", "~", "1", "e", "1", ";">>
ExponentRelativeMove == <<"m", " ", "e", " ", "~", "e", "1", " ", "0", " ", "0", ";">>

CoordMenu ==
    {AbsoluteMove, AbsoluteMoveFar, SameMove, BareMove, OffsetMove, OtherEntityMove,
     OtherKindTurn, TwiceRelativeMove, SignedRelativeMove, LetterRelativeMove, BadNameMove,
     SignedZeroMove, FractionOffsetMove, ExponentRelativeMove}
InitCoordinates ==
    \E texts \in SeqUpTo(CoordMenu, MaxCoordStatements) : ParseStart(FileText(texts))
NextCoordinates == ParseStep
SpecCoordinates == InitCoordinates /\ [][NextCoordinates]_vars

(***************************************************************************)
(* Claims on coordinates and entity names, under SpecCoordinates.          *)
(***************************************************************************)
TransformKinds == {"Translate", "Rotate", "Scale"}

\* the buffer is a transform statement without numbers: a transform keyword,
\* an entity name and three coordinate tokens
TransformRead(buffer) ==
    LET words == Split(buffer, " ")
    IN /\ Len(words) = 5
       /\ EndsWith(buffer, <<";">>)
       /\ Keyword_from_str(words[1]).ok
       /\ Keyword_from_str(words[1]).value \in TransformKinds

KindRead(buffer) == Keyword_from_str(Split(buffer, " ")[1]).value
NameRead(buffer) == Split(buffer, " ")[2]
TokensRead(buffer) ==
    LET words == Split(buffer, " ")
    IN <<words[3], words[4], remove_last_char(words[5])>>

\* what the entity map records for the name and the kind, zero when nothing is
Recorded(entities, name, kind) ==
    IF name \in DOMAIN entities THEN component(kind, entities[name].transformation)
    ELSE component(kind, Transformation_default)

\* a coordinate token as the rule reads it: ~ and an offset, or a number
ClaimedCoordinate(token, current) ==
    IF token # <<>> /\ Head(token) = "~"
    THEN LET rest == Tail(token)
         IN IF rest = <<>> THEN Ok(f32_add(current, F32(0)))
            ELSE IF ParseF32(rest).ok THEN Ok(f32_add(current, ParseF32(rest).value))
            ELSE Err("InvalidCoordinate")
    ELSE ParseF32(token)

\* C18: a relative token ~<rest> resolves to the entity's recorded value for
\* the axis and kind plus the offset, which is 0 for an empty <rest> and <rest>
\* as a number otherwise; a token without ~ resolves to its own value; a token
\* whose <rest> is no number fails with an invalid-coordinate error.
C18_RelativeCoordinates ==
    [][(Len(raw_buffers') = Len(raw_buffers) + 1 /\ TransformRead(LastBuffer'))
         => LET kind == KindRead(LastBuffer')
                current == Recorded(entity_map, NameRead(LastBuffer'), kind)
                tokens == TokensRead(LastBuffer')
                x == ClaimedCoordinate(tokens[1], current.x)
                y == ClaimedCoordinate(tokens[2], current.y)
                z == ClaimedCoordinate(tokens[3], current.z)
            IN IF x.ok /\ y.ok /\ z.ok
               THEN /\ Len(statements') = Len(statements) + 1
                    /\ statements'[Len(statements')].value = Vec3(x.value, y.value, z.value)
               ELSE /\ outcome' = "InvalidCoordinate"
                    /\ statements' = statements]_vars

\* the statement is a translate of the entity named
TranslateOf(i, name) ==
    /\ statements[i].type = "Keyword"
    /\ statements[i].keyword = "Translate"
    /\ statements[i].entity.name = name

IsAbsolute(tokens) == \A k \in 1..3 : Head(tokens[k]) # "~"
IsZeroRelative(tokens) ==
    tokens = <<<<"~", "0">>, <<"~", "0">>, <<"~", "0">>>> \/ tokens = <<<<"~">>, <<"~">>, <<"~">>>>

\* two f32 that are the same number: the same value, the two zeros being one
\* number (NaN, which the program prints as NaN, is taken as the same as NaN)
SameNumber(a, b) == a = b \/ (a.class = "finite" /\ b.class = "finite" /\ a.m = 0 /\ b.m = 0)
SamePosition(p, q) == SameNumber(p.x, q.x) /\ SameNumber(p.y, q.y) /\ SameNumber(p.z, q.z)

\* C19: a translate of an entity to an absolute position p, followed by a
\* translate of the same entity by ~0 ~0 ~0 (or ~ ~ ~), gives a second
\* statement at p and leaves the entity's recorded translation at p, whatever
\* statements for other entities or other kinds stand between the two.
C19_ZeroOffsetKeepsPosition ==
    \A i, j \in 1..Len(statements) :
        (/\ i < j
         /\ TransformRead(BufferRead(i)) /\ TransformRead(BufferRead(j))
         /\ TranslateOf(i, NameRead(BufferRead(i)))
         /\ TranslateOf(j, NameRead(BufferRead(i)))
         /\ IsAbsolute(TokensRead(BufferRead(i)))
         /\ IsZeroRelative(TokensRead(BufferRead(j)))
         /\ \A k \in (i + 1)..(j - 1) : ~TranslateOf(k, NameRead(BufferRead(i))))
           => /\ SamePosition(statements[j].value, statements[i].value)
              /\ SamePosition(statements[j].entity.transformation.translation,
                              statements[i].value)
              /\ (j = Len(statements)
                    => SamePosition(entity_map[NameRead(BufferRead(i))].transformation.translation,
                                    statements[i].value))

\* e was moved to 1 2 3, turned, and moved by ~ ~ ~: it is at 1 2 3
C19_Witness ==
    /\ Len(statements) = 3
    /\ source = FileText(<<AbsoluteMove, OtherKindTurn, BareMove>>)
    /\ statements[3].value = Vec3(F32(1), F32(2), F32(3))
    /\ entity_map[<<"e">>].transformation.translation = Vec3(F32(1), F32(2), F32(3))

\* C20: a transform statement whose entity name has a character outside
\* [A-Za-z0-9_-] fails with an invalid-characters error and stores no statement.
C20_EntityNameChecked ==
    \A i \in 1..Len(raw_buffers) :
        (TransformRead(BufferRead(i)) /\ ~valid_character_is_match(NameRead(BufferRead(i))))
           => /\ i = Len(raw_buffers)
              /\ Len(statements) = i - 1
              /\ outcome = "InvalidCharacters"

(***************************************************************************)
(* Claim on the aliases of the transform keywords, under SpecReader.       *)
(***************************************************************************)
\* the field of a generated line that each well-formed statement text sets
AliasField(alias_text) ==
    IF alias_text = ReaderMove THEN "translation"
    ELSE IF alias_text \in {ReaderTimedTurn, ReaderRotate} THEN "left_rotation"
    ELSE "none"

\* C21: each alias of a transform keyword is accepted and gives the statement
\* kind of its family: translate, move and m a Translate; rotate, turn and r a
\* Rotate; scale, size and s a Scale.
C21_AliasesAccepted ==
    \A alias_text \in {ReaderMove, ReaderTimedTurn, ReaderRotate} :
        (reader_pc = "done" /\ source = FileText(<<alias_text>>))
           => /\ reader_result.ok
              /\ Len(TransformLines) = 1
              /\ TransformLines[1].transformation.field = AliasField(alias_text)

(***************************************************************************)
(* A Number token parsed, displayed and parsed again (objects.rs).         *)
(***************************************************************************)
\* <NumberType as Display>::fmt that names every type Delay
NumberType_fmt_delay(number_type) == <<"D", "e", "l", "a", "y", ":", " ", "(">> \o <<DELAY_PREFIX>> \o <<")">>

\* <NumberType as Display>::fmt
NumberType_fmt(number_type) ==
    IF number_type = "Delay" THEN <<"D", "e", "l", "a", "y", ":", " ", "(">> \o <<DELAY_PREFIX>> \o <<")">>
    ELSE <<"D", "u", "r", "a", "t", "i", "o", "n", ":", " ", "(">> \o <<DURATION_PREFIX>> \o <<")">>

\* <Number as Display>::fmt, "{value}: {number_type}"
Number_fmt(n) == ToDigits(n.value) \o <<":", " ">> \o NumberType_fmt(n.number_type)

MaxTokenDigits == 3
TokenPrefixes == {DELAY_PREFIX, DURATION_PREFIX, "t"}
TokenChars == {"0", "1", "9", "+", "x"}

\* Number::from_str on the token
TokenParse ==
    /\ token_pc = "start"
    /\ number_parsed' = Number_from_str(number_token)
    /\ token_pc' = IF number_parsed'.ok THEN "parsed" ELSE "done"
    /\ UNCHANGED <<number_token, number_shown, number_reparsed>>
    /\ UNCHANGED <<lexVars, parseVars, mainVars, tickVars, readerVars>>

\* to_string of the Number parsed
TokenShow ==
    /\ token_pc = "parsed"
    /\ number_shown' = Number_fmt(number_parsed.value)
    /\ token_pc' = "number_shown"
    /\ UNCHANGED <<number_token, number_parsed, number_reparsed>>
    /\ UNCHANGED <<lexVars, parseVars, mainVars, tickVars, readerVars>>

\* Number::from_str on the text shown
TokenReparse ==
    /\ token_pc = "number_shown"
    /\ number_reparsed' = Number_from_str(number_shown)
    /\ token_pc' = "done"
    /\ UNCHANGED <<number_token, number_parsed, number_shown>>
    /\ UNCHANGED <<lexVars, parseVars, mainVars, tickVars, readerVars>>

InitTokens ==
    /\ \E prefix \in TokenPrefixes, rest \in SeqUpTo(TokenChars, MaxTokenDigits) :
          number_token = <<prefix>> \o rest
    /\ number_parsed = <<>> /\ number_shown = <<>> /\ number_reparsed = <<>> /\ token_pc = "start"
    /\ IdleLex /\ IdleParse /\ IdleMain /\ IdleTick /\ IdleReader
NextTokens == TokenParse \/ TokenShow \/ TokenReparse
SpecTokens == InitTokens /\ [][NextTokens]_vars

(***************************************************************************)
(* Claim on the round trip of a Number token, under SpecTokens.            *)
(***************************************************************************)
\* the token was parsed to a Number, displayed, and the text parsed again
RoundTripDone == token_pc = "done" /\ number_parsed # <<>> /\ number_parsed.ok

\* C22 as stated: for every valid Number token, parsing the token and
\* re-serializing the Number gives a token that parses to a Number with the
\* same value and the same NumberType.
C22_DisplayParsesBack ==
    RoundTripDone => number_reparsed.ok /\ number_reparsed.value = number_parsed.value

\* the text up to the first colon
RECURSIVE BeforeColon(_)
BeforeColon(s) ==
    IF s = <<>> \/ Head(s) = ":" THEN <<>> ELSE <<Head(s)>> \o BeforeColon(Tail(s))

\* the token made of the prefix shown in parentheses and the value shown
TokenOfShown(s) == <<s[Len(s) - 1]>> \o BeforeColon(s)

\* C22: for every valid Number token, parsing the token and displaying the
\* Number gives the text "<value>: <type>: (<prefix>)", which is no token
\* itself; the prefix and the value it shows, put together as a token, parse
\* to a Number with the same value and the same NumberType as the token's.
C22_ShownValueAndPrefixParseBack ==
    RoundTripDone =>
        /\ ~number_reparsed.ok
        /\ number_parsed.value.number_type = (IF number_token[1] = DELAY_PREFIX THEN "Delay" ELSE "Duration")
        /\ Number_from_str(TokenOfShown(number_shown)).ok
        /\ Number_from_str(TokenOfShown(number_shown)).value = number_parsed.value

\* the token %019 was shown as "19: Duration: (%)"
C22_Witness ==
    /\ token_pc = "done"
    /\ number_token = <<"%", "0", "1", "9">>
    /\ number_shown = <<"1", "9", ":", " ", "D", "u", "r", "a", "t", "i", "o", "n", ":", " ", "(", "%", ")">>
    /\ number_reparsed.kind = "InvalidNumberPrefix"

(***************************************************************************)
(* Claims on quotes and the end of the stream, under SpecLex.              *)
(***************************************************************************)
\* no quote, comment or escape character among the first n characters
PlainUpTo(buffer, n) == \A k \in 1..n : buffer[k] \notin {"'", "#", "\\"}

\* C23: an escaped quote does not toggle the quoted flag: after an escaped
\* quote outside a quoted span the extractor is still unquoted, so a separator
\* right behind it ends the buffer.
C23_EscapedQuoteKeepsUnquoted ==
    \A i \in 1..Len(raw_buffers) :
        \A k \in 1..(Len(raw_buffers[i]) - 2) :
            (/\ PlainUpTo(raw_buffers[i], k - 1)
             /\ raw_buffers[i][k] = "\\"
             /\ raw_buffers[i][k + 1] = "'"
             /\ raw_buffers[i][k + 2] \in Separators)
               => Len(raw_buffers[i]) = k + 2

\* how many quote characters stand among the first n characters
RECURSIVE QuotesUpTo(_, _)
QuotesUpTo(buffer, n) ==
    IF n = 0 THEN 0
    ELSE QuotesUpTo(buffer, n - 1) + (IF buffer[n] = "'" THEN 1 ELSE 0)

\* a quote of the buffer was opened and not closed
UnclosedQuote(buffer) == QuotesUpTo(buffer, Len(buffer)) % 2 = 1

\* C24: when a quote is opened and never closed, the text after it is absorbed
\* into the one buffer that contains the quote, and the quoted state is not
\* carried into a later call: each call starts unquoted, so a separator with
\* no open quote before it in its own buffer ends that buffer.
C24_UnclosedQuoteOneBuffer ==
    \A i \in 1..Len(raw_buffers) :
        /\ UnclosedQuote(raw_buffers[i]) => (i = Len(raw_buffers) /\ contents = <<>>)
        /\ \A k \in 1..Len(raw_buffers[i]) :
              (raw_buffers[i][k] \in Separators /\ QuotesUpTo(raw_buffers[i], k - 1) % 2 = 0)
                 => k = Len(raw_buffers[i])

\* after the statement a; the quote of ';a; was never closed: one buffer
\* holds it with both separators
C24_Witness ==
    /\ source = <<"'", ";", "a", ";">>
    /\ raw_buffers = <<source>>
    /\ contents = <<>>

(***************************************************************************)
(* Files of statements, blank statements, white space and comments.        *)
(***************************************************************************)
MaxStreamPieces == 4

StreamPieces ==
    {MoveText, BlockBothText, BlockEndText, <<" ">>, <<"\n">>, <<"\f">>, <<";">>,
     <<"#", "c", "\n">>}

InitStream ==
    \E pieces \in SeqUpTo(StreamPieces, MaxStreamPieces) : ParseStart(Concat(pieces))
NextStream == ParseStep
SpecStream == InitStream /\ [][NextStream]_vars

(***************************************************************************)
(* Claim on the end of file, under SpecStream.                             *)
(***************************************************************************)
\* C25: the parser reports EndOfFile only when the character stream is
\* exhausted: whenever the trimmed buffer is empty no unread character is
\* left, so no statement behind the point where parsing stopped is skipped.
C25_EndOfFileAtExhaustion ==
    /\ outcome = "ok" => contents = <<>>
    /\ \A i \in 1..Len(raw_buffers) :
          BufferRead(i) = <<>> => (i = Len(raw_buffers) /\ contents = <<>>)

\* after a block and its end, the white space left was read as end of file
C25_Witness ==
    /\ source = BlockBothText \o BlockEndText \o <<" ", "\n">>
    /\ outcome = "ok"
    /\ Len(raw_buffers) = 3
    /\ Len(statements) = 2
    /\ contents = <<>>

(***************************************************************************)
(* Claim on what a transform statement records, under SpecCoordinates.     *)
(***************************************************************************)
\* the turn of the loop read a transform statement
TransformStep == Len(raw_buffers') = Len(raw_buffers) + 1 /\ TransformRead(LastBuffer')

\* C26: a transform statement of kind K for entity e changes only the recorded
\* K component of e; the two other components of e and every component of
\* every other entity stay as they were, and a transform statement that fails
\* to parse changes no recorded value of any entity.
C26_OnlyOwnComponentChanges ==
    [][TransformStep
         => \A name \in DOMAIN entity_map \cup DOMAIN entity_map', kind \in TransformKinds :
               \/ /\ Len(statements') = Len(statements) + 1
                  /\ name = NameRead(LastBuffer')
                  /\ kind = KindRead(LastBuffer')
               \/ Recorded(entity_map', name, kind) = Recorded(entity_map, name, kind)]_vars

\* e was moved to 1 2 3, f to 7 7 7, and e turned: all three are recorded
C26_Witness ==
    /\ source = FileText(<<AbsoluteMove, OtherEntityMove, OtherKindTurn>>)
    /\ Len(statements) = 3
    /\ entity_map[<<"e">>].transformation.translation = Vec3(F32(1), F32(2), F32(3))
    /\ entity_map[<<"e">>].transformation.rotation = Vec3(F32(0), F32(9), F32(0))
    /\ entity_map[<<"f">>].transformation.translation = Vec3(F32(7), F32(7), F32(7))

\* the move of e by ~x failed and left e at 1 2 3
C26_WitnessFailed ==
    /\ source = FileText(<<AbsoluteMove, LetterRelativeMove>>)
    /\ outcome = "InvalidCoordinate"
    /\ entity_map[<<"e">>].transformation.translation = Vec3(F32(1), F32(2), F32(3))

(***************************************************************************)
(* Claim on the objective of the generated lines, under SpecTick.          *)
(***************************************************************************)
\* the CompiledFile the generated function came in
GeneratedFile == program(program_statements, <<"a">>, SourcePath(1)).value

\* C27: within one compiled file every guarded statement line, both reset
\* lines and the increment line name the same objective, the one built from
\* the (object_name, animation_name) pair of the CompiledFile, wherever the
\* name declaration stands, also behind a transform statement.
C27_OneObjective ==
    \A j \in 1..Len(function) :
        function[j].op \in EmittingOps \cup {"set", "add"}
           => function[j].holder = Holder(GeneratedFile.object_name,
                                          GeneratedFile.animation_name)

(***************************************************************************)
(* Claim on the buffers as a partition of the input, under SpecLex.        *)
(***************************************************************************)
\* the text with each comment, from # up to the next line break, removed
RECURSIVE WithoutComments(_, _)
WithoutComments(s, inside) ==
    IF s = <<>> THEN <<>>
    ELSE IF Head(s) = "\n" THEN <<"\n">> \o WithoutComments(Tail(s), FALSE)
    ELSE IF inside \/ Head(s) = "#" THEN WithoutComments(Tail(s), TRUE)
    ELSE <<Head(s)>> \o WithoutComments(Tail(s), FALSE)

\* C28: the buffer extractor partitions the input without loss or
\* duplication: the untrimmed buffers of the successive calls, concatenated in
\* order (with what is still unread), give the input with each comment
\* removed, and every buffer except possibly the last ends with a separator.
C28_BuffersPartitionInput ==
    /\ Concat(raw_buffers) \o WithoutComments(contents, FALSE)
          = WithoutComments(source, FALSE)
    /\ \A i \in 1..(Len(raw_buffers) - 1) :
          /\ raw_buffers[i] # <<>>
          /\ raw_buffers[i][Len(raw_buffers[i])] \in Separators

\* the stream ;#;\n was read as the buffers ; and \n
C28_Witness ==
    /\ source = <<";", "#", ";", "\n">>
    /\ raw_buffers = <<<<";">>, <<"\n">>>>
    /\ contents = <<>>

(***************************************************************************)
(* Claim on blocks left open at the end of the file, under SpecBlocks.     *)
(***************************************************************************)
\* C29: a file parses successfully only if its braces are balanced at the end
\* of the file: when end of file is reached while the stack holds more than
\* its base entry, the parse fails.
C29_BalancedAtEndOfFile ==
    outcome = "ok" => Len(block_queue) = 1

====
